---- MODULE Spec2Model ----
(***************************************************************************)
(* Decision-and-state layer of the market maker:                           *)
(*   - FairPriceCalculator fed by a BinancePriceFeed      (SpecFair)       *)
(*   - AftermathOrderbookSubscription                     (SpecBook)       *)
(*   - Quoter / PositionManager                           (SpecQuote)      *)
(* Numbers of the TypeScript code are IEEE-754 binary floating point.      *)
(* They are modelled by a binary floating-point format with the same       *)
(* rounding rule (round to nearest, ties to even) and a significand of     *)
(* MantBits bits instead of 53, without exponent limits.                   *)
(***************************************************************************)
EXTENDS Integers, Sequences, FiniteSets, TLC

\* ------------------------------------------------------------------------
\* Binary floating point
\* ------------------------------------------------------------------------

\* width of the significand
MantBits == 13

Pow2(n) == 2 ^ n

Abs(x) == IF x < 0 THEN -x ELSE x

RECURSIVE BitLen(_)
\* number of binary digits of a natural number
BitLen(n) == IF n = 0 THEN 0 ELSE 1 + BitLen(n \div 2)

NaN == [k |-> "nan", m |-> 0, e |-> 0]

FZero == [k |-> "num", m |-> 0, e |-> 0]

IsNaN(a) == a.k = "nan"

Mk(m, e) == [k |-> "num", m |-> m, e |-> e]

\* the float nearest to sgn * (n + s) * 2^e, n a natural number, 0 <= s < 1,
\* sticky = (s > 0); ties go to the even significand
RoundNearestEven(sgn, n, e, sticky) ==
    IF n = 0 THEN FZero
    ELSE LET bits == BitLen(n) IN
         IF bits <= MantBits
         THEN Mk(sgn * n * Pow2(MantBits - bits), e - (MantBits - bits))
         ELSE LET k    == bits - MantBits
                  q    == n \div Pow2(k)
                  r    == n % Pow2(k)
                  half == Pow2(k - 1)
                  up   == \/ r > half
                          \/ r = half /\ sticky
                          \/ r = half /\ ~sticky /\ q % 2 = 1
                  q2   == IF up THEN q + 1 ELSE q
              IN IF q2 = Pow2(MantBits)
                 THEN Mk(sgn * Pow2(MantBits - 1), e + k + 1)
                 ELSE Mk(sgn * q2, e + k)

Sign(x) == IF x < 0 THEN -1 ELSE 1

\* an integer literal or integer result
FromInt(n) == RoundNearestEven(Sign(n), Abs(n), 0, FALSE)

FNeg(a) == IF IsNaN(a) THEN NaN ELSE Mk(-a.m, a.e)

FMul(a, b) ==
    IF IsNaN(a) \/ IsNaN(b) THEN NaN
    ELSE RoundNearestEven(Sign(a.m) * Sign(b.m), Abs(a.m) * Abs(b.m), a.e + b.e, FALSE)

\* b # 0
FDiv(a, b) ==
    IF IsNaN(a) \/ IsNaN(b) THEN NaN
    ELSE LET num == Abs(a.m) * Pow2(MantBits + 2)
             den == Abs(b.m)
         IN RoundNearestEven(Sign(a.m) * Sign(b.m), num \div den,
                             a.e - b.e - (MantBits + 2), num % den # 0)

FAdd(a, b) ==
    IF IsNaN(a) \/ IsNaN(b) THEN NaN
    ELSE IF a.m = 0 THEN b
    ELSE IF b.m = 0 THEN a
    ELSE IF a.e - b.e > MantBits + 2 THEN a
    ELSE IF b.e - a.e > MantBits + 2 THEN b
    ELSE LET emin == IF a.e < b.e THEN a.e ELSE b.e
             n    == a.m * Pow2(a.e - emin) + b.m * Pow2(b.e - emin)
         IN RoundNearestEven(Sign(n), Abs(n), emin, FALSE)

FSub(a, b) == FAdd(a, FNeg(b))

\* Math.floor
FFloor(a) ==
    IF IsNaN(a) THEN NaN
    ELSE IF a.e >= 0 THEN a
    ELSE IF -a.e > MantBits THEN (IF a.m < 0 THEN FromInt(-1) ELSE FZero)
    ELSE FromInt(a.m \div Pow2(-a.e))

\* Math.ceil
FCeil(a) == FNeg(FFloor(FNeg(a)))

\* Math.abs
FAbs(a) == IF IsNaN(a) THEN NaN ELSE Mk(Abs(a.m), a.e)

\* a < b on numbers; any comparison with NaN is false
FLt(a, b) ==
    IF IsNaN(a) \/ IsNaN(b) THEN FALSE
    ELSE IF a.m = 0 THEN b.m > 0
    ELSE IF b.m = 0 THEN a.m < 0
    ELSE IF a.m < 0 /\ b.m > 0 THEN TRUE
    ELSE IF a.m > 0 /\ b.m < 0 THEN FALSE
    ELSE IF a.m > 0
         THEN (a.e < b.e \/ (a.e = b.e /\ a.m < b.m))
         ELSE (a.e > b.e \/ (a.e = b.e /\ a.m < b.m))

FEq(a, b) == ~IsNaN(a) /\ ~IsNaN(b) /\ a = b

FLe(a, b) == FLt(a, b) \/ FEq(a, b)

FGt(a, b) == FLt(b, a)

FGe(a, b) == FLe(b, a)

\* a decimal literal n/d, correctly rounded
Lit(n, d) == FDiv(FromInt(n), FromInt(d))


\* ------------------------------------------------------------------------
\* State
\* ------------------------------------------------------------------------

VARIABLES
    \* FairPriceCalculator
    ema,              \* this.ema (Null until the first tick)
    alpha,            \* this.alpha
    priceCount,       \* this.priceCount
    minPrices,        \* this.minPrices
    warmupMs,         \* this.warmupMs
    elapsed,          \* Date.now() - this.startTime
    \* BinancePriceFeed owned by the calculator
    ws,               \* this.ws: 0 (null) or the id of a socket
    isConnecting,     \* this.isConnecting
    shouldReconnect,  \* this.shouldReconnect
    reconnectTimeout, \* this.reconnectTimeout: TRUE while a timer is pending
    sockets,          \* the WebSocket objects created by connect()
    feedClosed        \* history: disconnect() was the caller's last request

fairVars == <<ema, alpha, priceCount, minPrices, warmupMs, elapsed,
              ws, isConnecting, shouldReconnect, reconnectTimeout,
              sockets, feedClosed>>

VARIABLES
    \* AftermathOrderbookSubscription, one entry per market id
    eventSources,      \* this.eventSources: 0 (absent) or the id of a source
    localOrderbooks,   \* this.localOrderbooks
    callbacks,         \* this.callbacks: 0 (absent) or the id of a callback
    reconnectTimeouts, \* this.reconnectTimeouts: "none", "pending" or "fired"
    strayTimers,       \* pending timers whose handle the map no longer holds
    sources,           \* the EventSource objects created by connectSSE()
    fetching,          \* subscribeOrderbook() awaiting getOrderbook(): callback id or 0
    \* history of the subscription
    ideal,             \* exact per-price sizes: snapshot plus the deltas applied
    valid,             \* every delta applied since the snapshot was valid
    handled,           \* what the last step handled
    called,            \* callback invoked by the last step: <<market, id>> or <<>>
    subClosed,         \* disconnect() was the caller's last request
    gap                \* history: a timer reconnected the market's stream after
                       \* its book was loaded

bookVars == <<eventSources, localOrderbooks, callbacks, reconnectTimeouts,
              strayTimers, sources, fetching, ideal, valid, handled, called,
              subClosed, gap>>

\* Quoter and PositionManager
VARIABLES
    config,        \* the MarketMakerConfig both objects were constructed with
    market,        \* Quoter.market, NoMarket for null
    position,      \* PositionManager.position
    quote,         \* the Quote returned by the latest generateQuotes call
    orders,        \* the orders returned by quoteToOrders for that quote
    quoteCall,     \* history: arguments and market of the latest generateQuotes call
    staleCheck     \* history: arguments and result of the latest isOrderStale call

quoteVars == <<config, market, position, quote, orders, quoteCall, staleCheck>>

\* calls of placeOrder and cancelOrders on the Aftermath adapter
VARIABLES
    writes,        \* one record per call: where it stands and what it holds
    requests       \* history: the build and submit requests sent, in order

orderVars == <<writes, requests>>

\* listeners of the FairPriceCalculator
VARIABLES
    priceCallbacks, \* this.priceCallbacks: ids of the callbacks, in push order
    lastUpdateTime, \* this.lastUpdateTime: 0 or the timestamp of the last tick
    delivery        \* history: the callback invocations of the last tick, in order

notifyVars == <<priceCallbacks, lastUpdateTime, delivery>>

\* the markets cache of the Aftermath adapter (module-level state)
VARIABLES
    marketsCache,   \* marketsCache: 0 (null) or the version of the stored list
    cacheTimestamp, \* cacheTimestamp
    cacheNow,       \* Date.now()
    fetches,        \* one record per getMarkets call: where it stands
    cacheOp,        \* history: the last operation on the cache
    cleared         \* history: clearMarketsCache ran and no getMarkets began since

cacheVars == <<marketsCache, cacheTimestamp, cacheNow, fetches, cacheOp, cleared>>

\* ------------------------------------------------------------------------
\* FairPriceCalculator
\* ------------------------------------------------------------------------

Null == [k |-> "null", m |-> 0, e |-> 0]

DEFAULT_WINDOW_MS == 300000

DEFAULT_MIN_PRICES == 10

DEFAULT_WARMUP_MS == 10000

\* largest number of ticks fed to one calculator
MaxTicks == 3

\* the clock advances in steps of ClockStep up to MaxElapsed
ClockStep == 5000

MaxElapsed == 10000

\* number of WebSocket objects of one feed that are alive at the same time
MaxSockets == 2

\* constructor arguments; 0 stands for an option that is not given
FairConfigs ==
    { [windowMs |-> 0, alpha |-> FZero, minPrices |-> 0, warmupMs |-> 0],
      [windowMs |-> 3000, alpha |-> FZero, minPrices |-> 2, warmupMs |-> 5000] }

\* prices carried by well-formed trade messages
TickPrices == { FromInt(100), FromInt(103) }

\* trade times (trade.T) carried by the messages
TradeTimes == { 1700 }

\* a || b on numbers
OrElse(a, b) == IF a = 0 THEN b ELSE a

\* alpha as the constructor computes it
ConstructAlpha(cfg) ==
    LET windowMs         == OrElse(cfg.windowMs, DEFAULT_WINDOW_MS)
        estimatedPeriods == FDiv(FromInt(windowMs), FromInt(1000))
    IN IF cfg.alpha.m # 0 THEN cfg.alpha
       ELSE FDiv(FromInt(2), FAdd(estimatedPeriods, FromInt(1)))

\* largest number of callbacks registered at one time
MaxCallbacks == 3

CallbackFns == 1 .. MaxCallbacks

\* what a callback does when it is invoked: the callback it hands to
\* offPriceUpdate (0: none). Callback 2 unregisters itself, callback 3
\* unregisters callback 1, the others only read the price.
Removes(c) == IF c = 2 THEN 2 ELSE IF c = 3 THEN 1 ELSE 0

\* priceCallbacks.indexOf(c): 0 when absent
IndexOfCallback(list, c) ==
    IF \E i \in 1..Len(list) : list[i] = c
    THEN CHOOSE i \in 1..Len(list) : list[i] = c /\ \A j \in 1..(i - 1) : list[j] # c
    ELSE 0

\* priceCallbacks after offPriceUpdate(c)
WithoutCallback(list, c) ==
    LET index == IndexOfCallback(list, c)
    IN IF index = 0 THEN list
       ELSE [i \in 1..(Len(list) - 1) |-> IF i < index THEN list[i] ELSE list[i + 1]]

\* the for...of loop of updateEMA over this.priceCallbacks, from position i:
\* <<the array after the loop, the callbacks invoked, in order>>. The
\* iterator reads the live array, so a splice by a callback moves the
\* elements under it.
RECURSIVE Notified(_, _, _)
Notified(list, i, invoked) ==
    IF i > Len(list) THEN <<list, invoked>>
    ELSE Notified(WithoutCallback(list, Removes(list[i])), i + 1,
                  Append(invoked, list[i]))

\* the calls callback(this.ema, timestamp) of one tick
Invocations(invoked, price, timestamp) ==
    [i \in 1..Len(invoked) |->
        [callback |-> invoked[i], price |-> price, timestamp |-> timestamp]]

\* a variant that blends the first tick with an average of zero
UpdatedEma_BlendsFirst(price) ==
    FAdd(FMul(alpha, price),
         FMul(FSub(FromInt(1), alpha), IF ema = Null THEN FZero ELSE ema))

\* a variant that forgets the average when the tick carries no number
UpdatedEma_ResetOnNaN(price) ==
    IF IsNaN(price) THEN Null
    ELSE IF ema = Null THEN price
    ELSE FAdd(FMul(alpha, price), FMul(FSub(FromInt(1), alpha), ema))

\* updateEMA: the new value of this.ema
UpdatedEma(price) ==
    IF ema = Null THEN price
    ELSE FAdd(FMul(alpha, price), FMul(FSub(FromInt(1), alpha), ema))

\* a variant that is satisfied with one of the two thresholds
IsWarmedUp_Either == elapsed >= warmupMs \/ priceCount >= minPrices

IsWarmedUp == elapsed >= warmupMs /\ priceCount >= minPrices

IsReady == ema # Null /\ IsWarmedUp

GetFairPrice == IF ~IsReady THEN Null ELSE ema



\* ------------------------------------------------------------------------
\* BinancePriceFeed
\* ------------------------------------------------------------------------

SocketIds == 1 .. MaxSockets

\* messages a socket can deliver: a trade, valid JSON without the p and T
\* fields, and a payload JSON.parse rejects
TradeMessages ==
    [kind : {"trade"}, p : TickPrices, T : TradeTimes] \cup
    { [kind |-> k, p |-> NaN, T |-> t] : k \in {"noprice", "garbage"}, t \in TradeTimes }

\* Number.parseFloat(trade.p)
ParsedPrice(msg) == IF msg.kind = "trade" THEN msg.p ELSE NaN

\* scheduleReconnect(): the new value of this.reconnectTimeout
ScheduleReconnect(timeout) == TRUE

\* the close handler of a socket, run on the fields (w, t)
\* returns the new <<ws, reconnectTimeout>>
OnClose(t) ==
    <<0, IF shouldReconnect THEN ScheduleReconnect(t) ELSE t>>

\* connect(): origin is "caller" or "timer" (the reconnect timer's callback,
\* which attaches .catch(scheduleReconnect) to the returned promise)
Connect(origin, timeout) ==
    IF ws # 0 \/ isConnecting
    THEN /\ reconnectTimeout' = timeout
         /\ UNCHANGED <<ws, isConnecting, shouldReconnect, sockets>>
    ELSE \E s \in SocketIds :
            /\ sockets[s].st = "none"
            /\ \A r \in SocketIds : sockets[r].st = "none" => s <= r
            /\ isConnecting' = TRUE
            /\ shouldReconnect' = TRUE
            /\ ws' = s
            /\ sockets' = [sockets EXCEPT ![s] = [st |-> "connecting", origin |-> origin]]
            /\ reconnectTimeout' = timeout

\* FairPriceCalculator.connect() called by the owner
FairConnect ==
    /\ UNCHANGED <<bookVars, quoteVars, orderVars, notifyVars, cacheVars>>
    /\ /\ Connect("caller", reconnectTimeout)
       /\ feedClosed' = FALSE
       /\ UNCHANGED <<ema, alpha, priceCount, minPrices, warmupMs, elapsed>>

\* the reconnect timer fires
ReconnectTimerFires ==
    /\ UNCHANGED <<bookVars, quoteVars, orderVars, notifyVars, cacheVars>>
    /\ /\ reconnectTimeout
       /\ Connect("timer", FALSE)
       /\ UNCHANGED <<ema, alpha, priceCount, minPrices, warmupMs, elapsed, feedClosed>>

\* FairPriceCalculator.disconnect() called by the owner.  close() on a
\* socket that is still connecting aborts the handshake (error, then close);
\* on an open socket it starts the closing handshake.
FairDisconnect ==
    /\ UNCHANGED <<bookVars, quoteVars, orderVars, notifyVars, cacheVars>>
    /\ /\ shouldReconnect' = FALSE
       /\ reconnectTimeout' = FALSE
       /\ ws' = 0
       /\ sockets' = IF ws = 0 THEN sockets
                     ELSE [sockets EXCEPT ![ws].st =
                             IF @ = "connecting" THEN "aborting"
                             ELSE IF @ = "open" THEN "closing" ELSE @]
       /\ feedClosed' = TRUE
       /\ UNCHANGED <<ema, alpha, priceCount, minPrices, warmupMs, elapsed, isConnecting>>

\* "open" event of socket s
SocketOpen(s) ==
    /\ UNCHANGED <<bookVars, quoteVars, orderVars, notifyVars, cacheVars>>
    /\ /\ sockets[s].st = "connecting"
       /\ sockets' = [sockets EXCEPT ![s].st = "open"]
       /\ isConnecting' = FALSE
       /\ reconnectTimeout' = FALSE
       /\ UNCHANGED <<ema, alpha, priceCount, minPrices, warmupMs, elapsed,
                      ws, shouldReconnect, feedClosed>>

\* the handshake of socket s fails or was aborted: "error", then "close",
\* then the rejection handler of the promise connect() returned
SocketFails(s) ==
    /\ UNCHANGED <<bookVars, quoteVars, orderVars, notifyVars, cacheVars>>
    /\ /\ sockets[s].st \in {"connecting", "aborting"}
       /\ sockets' = [sockets EXCEPT ![s] = [st |-> "none", origin |-> "caller"]]
       /\ isConnecting' = FALSE
       /\ ws' = OnClose(reconnectTimeout)[1]
       /\ reconnectTimeout' =
             IF sockets[s].origin = "timer"
             THEN ScheduleReconnect(OnClose(reconnectTimeout)[2])
             ELSE OnClose(reconnectTimeout)[2]
       /\ UNCHANGED <<ema, alpha, priceCount, minPrices, warmupMs, elapsed,
                      shouldReconnect, feedClosed>>

\* an established socket goes away: the connection drops ("error" then
\* "close") or the closing handshake completes ("close")
SocketCloses(s) ==
    /\ UNCHANGED <<bookVars, quoteVars, orderVars, notifyVars, cacheVars>>
    /\ /\ sockets[s].st \in {"open", "closing"}
       /\ sockets' = [sockets EXCEPT ![s] = [st |-> "none", origin |-> "caller"]]
       /\ isConnecting' = FALSE
       /\ ws' = OnClose(reconnectTimeout)[1]
       /\ reconnectTimeout' = OnClose(reconnectTimeout)[2]
       /\ UNCHANGED <<ema, alpha, priceCount, minPrices, warmupMs, elapsed,
                      shouldReconnect, feedClosed>>

\* "message" event of socket s; the callback is FairPriceCalculator.updateEMA
SocketMessage(s, msg) ==
    /\ UNCHANGED <<bookVars, quoteVars, orderVars, cacheVars>>
    /\ /\ sockets[s].st \in {"open", "closing"}
       /\ IF msg.kind = "garbage"
          THEN UNCHANGED <<ema, priceCount, notifyVars>>
          ELSE /\ priceCount < MaxTicks
               /\ ema' = UpdatedEma(ParsedPrice(msg))
               /\ priceCount' = priceCount + 1
               /\ lastUpdateTime' = msg.T
               /\ priceCallbacks' = Notified(priceCallbacks, 1, <<>>)[1]
               /\ delivery' = Invocations(Notified(priceCallbacks, 1, <<>>)[2],
                                          UpdatedEma(ParsedPrice(msg)), msg.T)
       /\ UNCHANGED <<alpha, minPrices, warmupMs, elapsed, ws, isConnecting,
                      shouldReconnect, reconnectTimeout, sockets, feedClosed>>

\* time passes
Tick ==
    /\ UNCHANGED <<bookVars, quoteVars, orderVars, notifyVars, cacheVars>>
    /\ /\ elapsed + ClockStep <= MaxElapsed
       /\ elapsed' = elapsed + ClockStep
       /\ UNCHANGED <<ema, alpha, priceCount, minPrices, warmupMs,
                      ws, isConnecting, shouldReconnect, reconnectTimeout,
                      sockets, feedClosed>>

\* new FairPriceCalculator(symbol, cfg)
\* onPriceUpdate(callback)
OnPriceUpdate(c) ==
    /\ UNCHANGED <<bookVars, quoteVars, orderVars, cacheVars>>
    /\ /\ Len(priceCallbacks) < MaxCallbacks
       /\ priceCallbacks' = Append(priceCallbacks, c)
       /\ UNCHANGED <<fairVars, lastUpdateTime, delivery>>

\* offPriceUpdate(callback), called outside a delivery
OffPriceUpdate(c) ==
    /\ UNCHANGED <<bookVars, quoteVars, orderVars, cacheVars>>
    /\ /\ priceCallbacks' = WithoutCallback(priceCallbacks, c)
       /\ UNCHANGED <<fairVars, lastUpdateTime, delivery>>

NotifyInit ==
    /\ priceCallbacks = <<>>
    /\ lastUpdateTime = 0
    /\ delivery = <<>>

FairInitWith(cfg) ==
    /\ ema = Null
    /\ alpha = ConstructAlpha(cfg)
    /\ priceCount = 0
    /\ minPrices = OrElse(cfg.minPrices, DEFAULT_MIN_PRICES)
    /\ warmupMs = OrElse(cfg.warmupMs, DEFAULT_WARMUP_MS)
    /\ elapsed = 0
    /\ ws = 0
    /\ isConnecting = FALSE
    /\ shouldReconnect = TRUE
    /\ reconnectTimeout = FALSE
    /\ sockets = [s \in SocketIds |-> [st |-> "none", origin |-> "caller"]]
    /\ feedClosed = FALSE

FairInit == \E cfg \in FairConfigs : FairInitWith(cfg)

\* a calculator constructed without options
FairIdle == FairInitWith([windowMs |-> 0, alpha |-> FZero, minPrices |-> 0, warmupMs |-> 0])

FairNext ==
    \/ FairConnect
    \/ FairDisconnect
    \/ ReconnectTimerFires
    \/ \E s \in SocketIds : SocketOpen(s)
    \/ \E s \in SocketIds : SocketFails(s)
    \/ \E s \in SocketIds : SocketCloses(s)
    \/ \E s \in SocketIds : \E msg \in TradeMessages : SocketMessage(s, msg)
    \/ Tick


\* ------------------------------------------------------------------------
\* AftermathOrderbookSubscription: the local book
\* ------------------------------------------------------------------------

Markets == {"m1", "m2"}

Prices == 1 .. 3

\* sizes on the wire are decimal numbers with one fractional digit, counted
\* here in lots of 0.1; largest size of one level at the venue, in lots
MaxLots == 3

\* largest nonce carried by a delta
MaxNonce == 1

\* JSON.parse of the sizes and size changes on the wire, by their lots
SizeTable == [l \in -(MaxLots + 1) .. (MaxLots + 1) |-> Lit(l, 10)]

Size(lots) == SizeTable[lots]

\* book.nonce when the snapshot carried none (undefined)
NoNonce == -1

\* levels.findIndex(([p]) => p === price), 0 when there is none
RECURSIVE IndexOfPrice(_, _, _)
IndexOfPrice(levels, price, i) ==
    IF i > Len(levels) THEN 0
    ELSE IF levels[i][1] = price THEN i
    ELSE IndexOfPrice(levels, price, i + 1)

\* levels.findIndex(([p]) => (isBid ? p < price : p > price)), 0 when none
RECURSIVE InsertIndex(_, _, _, _)
InsertIndex(levels, price, isBid, i) ==
    IF i > Len(levels) THEN 0
    ELSE IF (IF isBid THEN levels[i][1] < price ELSE levels[i][1] > price) THEN i
    ELSE InsertIndex(levels, price, isBid, i + 1)

\* levels.splice(i, 1)
RemoveAt(levels, i) == SubSeq(levels, 1, i - 1) \o SubSeq(levels, i + 1, Len(levels))

\* a splice that puts the level behind the found index
InsertAt_After(levels, i, level) ==
    SubSeq(levels, 1, i) \o <<level>> \o SubSeq(levels, i + 1, Len(levels))

\* levels.splice(i, 0, level)
InsertAt(levels, i, level) ==
    SubSeq(levels, 1, i - 1) \o <<level>> \o SubSeq(levels, i, Len(levels))

\* a variant that inserts a level for a price it does not find whatever the
\* sign of the change
ApplyPriceLevelDelta_InsertsAny(levels, price, amountDelta, isBid) ==
    LET existingIndex == IndexOfPrice(levels, price, 1) IN
    IF existingIndex > 0
    THEN LET newAmount == FAdd(levels[existingIndex][2], amountDelta) IN
         IF FLe(newAmount, FZero)
         THEN RemoveAt(levels, existingIndex)
         ELSE [levels EXCEPT ![existingIndex] = <<price, newAmount>>]
    ELSE LET insertIndex == InsertIndex(levels, price, isBid, 1) IN
         IF insertIndex > 0
         THEN InsertAt(levels, insertIndex, <<price, amountDelta>>)
         ELSE Append(levels, <<price, amountDelta>>)

\* a variant that removes a level only when its size falls below zero
ApplyPriceLevelDelta_KeepsEmpty(levels, price, amountDelta, isBid) ==
    LET existingIndex == IndexOfPrice(levels, price, 1) IN
    IF existingIndex > 0
    THEN LET newAmount == FAdd(levels[existingIndex][2], amountDelta) IN
         IF FLt(newAmount, FZero)
         THEN RemoveAt(levels, existingIndex)
         ELSE [levels EXCEPT ![existingIndex] = <<price, newAmount>>]
    ELSE IF FGt(amountDelta, FZero)
    THEN LET insertIndex == InsertIndex(levels, price, isBid, 1) IN
         IF insertIndex > 0
         THEN InsertAt(levels, insertIndex, <<price, amountDelta>>)
         ELSE Append(levels, <<price, amountDelta>>)
    ELSE levels

\* applyPriceLevelDelta: the levels afterwards
ApplyPriceLevelDelta(levels, price, amountDelta, isBid) ==
    LET existingIndex == IndexOfPrice(levels, price, 1) IN
    IF existingIndex > 0
    THEN LET newAmount == FAdd(levels[existingIndex][2], amountDelta) IN
         IF FLe(newAmount, FZero)
         THEN RemoveAt(levels, existingIndex)
         ELSE [levels EXCEPT ![existingIndex] = <<price, newAmount>>]
    ELSE IF FGt(amountDelta, FZero)
    THEN LET insertIndex == InsertIndex(levels, price, isBid, 1) IN
         IF insertIndex > 0
         THEN InsertAt(levels, insertIndex, <<price, amountDelta>>)
         ELSE Append(levels, <<price, amountDelta>>)
    ELSE levels

\* the loops of applyDelta over one side; an entry is <<price, lots>>
RECURSIVE ApplySide(_, _, _)
ApplySide(levels, entries, isBid) ==
    IF entries = <<>> THEN levels
    ELSE ApplySide(ApplyPriceLevelDelta(levels, Head(entries)[1],
                                        Size(Head(entries)[2]), isBid),
                   Tail(entries), isBid)

\* a nonce check that reads a missing nonce of the book as 0
SkipsDelta_ZeroDefault(book, delta) ==
    delta.nonce <= (IF book.nonce = NoNonce THEN 0 ELSE book.nonce)

\* a nonce check that lets a delta with the book's own nonce through
SkipsDelta_Strict(book, delta) == book.nonce # NoNonce /\ delta.nonce < book.nonce

\* the nonce check of applyDelta
SkipsDelta(book, delta) == book.nonce # NoNonce /\ delta.nonce <= book.nonce

\* a variant whose metadata update forgets the timestamp
BookAfterDelta_KeepsTimestamp(book, delta) ==
    IF SkipsDelta(book, delta) THEN book
    ELSE IF delta.shape = "noasks"
    THEN [book EXCEPT !.bids = ApplySide(book.bids, delta.bids, TRUE)]
    ELSE [book EXCEPT !.bids = ApplySide(book.bids, delta.bids, TRUE),
                      !.asks = ApplySide(book.asks, delta.asks, FALSE),
                      !.nonce = delta.nonce]

\* the book object after onmessage has run applyDelta on it; a delta without
\* an asks list makes the second loop throw after the first has run
BookAfterDelta(book, delta) ==
    IF SkipsDelta(book, delta) THEN book
    ELSE IF delta.shape = "noasks"
    THEN [book EXCEPT !.bids = ApplySide(book.bids, delta.bids, TRUE)]
    ELSE [book EXCEPT !.bids = ApplySide(book.bids, delta.bids, TRUE),
                      !.asks = ApplySide(book.asks, delta.asks, FALSE),
                      !.timestamp = delta.timestamp,
                      !.nonce = delta.nonce]

\* applyDelta reaches the notification of the callback
DeltaNotifies(book, delta) == ~SkipsDelta(book, delta) /\ delta.shape = "ok"

\* ------------------------------------------------------------------------
\* AftermathOrderbookSubscription: venue data
\* ------------------------------------------------------------------------

\* number of EventSource objects of one market that are alive at the same time
MaxSources == 2

\* pending reconnect timers of one market besides the one the map holds
MaxStray == 1

SourceIds == 1 .. MaxSources

CallbackIds == {1, 2}

NoLots == [p \in Prices |-> 0]

\* the levels of one side as the venue lists them: bids by descending price,
\* asks by ascending price, only prices with a size; lots[p] is the size in lots
RECURSIVE LevelsFrom(_, _, _)
LevelsFrom(lots, isBid, n) ==
    IF n = 0 THEN <<>>
    ELSE LET p    == IF isBid THEN Cardinality(Prices) + 1 - n ELSE n
             rest == LevelsFrom(lots, isBid, n - 1)
         IN IF lots[p] > 0 THEN rest \o <<<<p, Size(lots[p])>>>> ELSE rest

\* getOrderbook(): the book object built from the venue's response
SnapshotBook(bidLots, askLots, nonce) ==
    [present |-> TRUE,
     bids |-> LevelsFrom(bidLots, TRUE, Cardinality(Prices)),
     asks |-> LevelsFrom(askLots, FALSE, Cardinality(Prices)),
     timestamp |-> 100,
     nonce |-> nonce]

NoBook == [present |-> FALSE, bids |-> <<>>, asks |-> <<>>, timestamp |-> 0, nonce |-> NoNonce]

\* venue books served as snapshots, in lots per price
VenueBooks ==
    { [bids |-> [p \in Prices |-> IF p = 3 THEN 1 ELSE IF p = 1 THEN 3 ELSE 0],
       asks |-> [p \in Prices |-> IF p = 2 THEN 1 ELSE 0]],
      [bids |-> [p \in Prices |-> IF p = 2 THEN 3 ELSE 0],
       asks |-> [p \in Prices |-> IF p = 2 THEN 0 ELSE p]] }

\* nonce of a snapshot: none or 0
SnapshotNonces == {NoNonce, 0}

DeltaLots == {-3, -1, 2}

Entries == Prices \X DeltaLots

\* entry lists of the bid side of a delta: at most one entry, the same price
\* twice, or the lowest and the highest price
BidLists ==
    {<<>>} \cup { <<en>> : en \in Entries }
    \cup { <<<<p, ab[1]>>, <<p, ab[2]>>>> :
              p \in Prices, ab \in {<<2, -3>>, <<-3, 2>>, <<2, 2>>} }
    \cup { <<<<1, 2>>, <<3, 2>>>> }

\* entry lists of the ask side of a delta
AskLists ==
    {<<>>} \cup { <<en>> : en \in Entries } \cup { <<<<2, 2>>, <<2, -3>>>> }

DeltaNonces == 0 .. MaxNonce

Delta(shape, bids, asks, nonce) ==
    [shape |-> shape, bids |-> bids, asks |-> asks, nonce |-> nonce,
     timestamp |-> 200 + nonce]

\* messages of the delta stream: deltas that change one side, deltas with an
\* entry on both sides, deltas without an asks list and a payload JSON.parse
\* rejects
RichDeltas ==
    { Delta("ok", l, <<>>, n) : l \in BidLists, n \in DeltaNonces }
    \cup { Delta("ok", <<>>, l, n) : l \in AskLists, n \in DeltaNonces }
    \cup { Delta("ok", <<en>>, <<en>>, n) :
              en \in {<<2, 2>>, <<1, -3>>, <<3, -1>>}, n \in DeltaNonces }
    \cup { Delta("noasks", <<en>>, <<>>, n) :
              en \in {<<2, 2>>, <<3, -1>>}, n \in DeltaNonces }
    \cup { Delta("garbage", <<>>, <<>>, 0) }

\* ------------------------------------------------------------------------
\* AftermathOrderbookSubscription: history of the applied deltas
\* ------------------------------------------------------------------------

\* exact per-price sizes after the entries of one side
RECURSIVE AddLots(_, _)
AddLots(lots, entries) ==
    IF entries = <<>> THEN lots
    ELSE AddLots([lots EXCEPT ![Head(entries)[1]] = @ + Head(entries)[2]],
                 Tail(entries))

\* no entry takes away more than the level holds
RECURSIVE EntriesValid(_, _)
EntriesValid(lots, entries) ==
    \/ entries = <<>>
    \/ /\ lots[Head(entries)[1]] + Head(entries)[2] >= 0
       /\ EntriesValid([lots EXCEPT ![Head(entries)[1]] = @ + Head(entries)[2]],
                       Tail(entries))

NoIdeal == [bids |-> NoLots, asks |-> NoLots]

\* every size of the book is below MaxLots + 1 lots
WithinCap(book) ==
    /\ \A i \in 1 .. Len(book.bids) : FLt(book.bids[i][2], Size(MaxLots + 1))
    /\ \A i \in 1 .. Len(book.asks) : FLt(book.asks[i][2], Size(MaxLots + 1))

Handled(op, m, stale, malformed) ==
    [op |-> op, m |-> m, stale |-> stale, malformed |-> malformed]

\* ------------------------------------------------------------------------
\* AftermathOrderbookSubscription: operations
\* ------------------------------------------------------------------------

\* connectSSE(m): a new EventSource replaces the map entry
ConnectSSE(m) ==
    \E i \in SourceIds :
        /\ sources[m][i] = "none"
        /\ \A j \in SourceIds : sources[m][j] = "none" => i <= j
        /\ sources' = [sources EXCEPT ![m][i] = "connecting"]
        /\ eventSources' = [eventSources EXCEPT ![m] = i]

\* subscribeOrderbook(m, cb) up to its await
Subscribe(m, cb) ==
    /\ UNCHANGED <<fairVars, quoteVars, orderVars, notifyVars, cacheVars>>
    /\ /\ IF eventSources[m] # 0
          THEN /\ callbacks' = [callbacks EXCEPT ![m] = cb]
               /\ UNCHANGED fetching
          ELSE /\ fetching[m] = 0
               /\ fetching' = [fetching EXCEPT ![m] = cb]
               /\ UNCHANGED callbacks
       /\ handled' = Handled("subscribe", m, FALSE, FALSE)
       /\ called' = <<>>
       /\ subClosed' = FALSE
       /\ UNCHANGED <<eventSources, localOrderbooks, reconnectTimeouts, strayTimers,
                      sources, ideal, valid, gap>>

\* subscribeOrderbook(m, cb) after getOrderbook() returned the venue's book
SnapshotArrives(m, vb, nonce) ==
    /\ UNCHANGED <<fairVars, quoteVars, orderVars, notifyVars, cacheVars>>
    /\ /\ fetching[m] # 0
       /\ localOrderbooks' = [localOrderbooks EXCEPT ![m] = SnapshotBook(vb.bids, vb.asks, nonce)]
       /\ called' = <<m, fetching[m]>>
       /\ callbacks' = [callbacks EXCEPT ![m] = fetching[m]]
       /\ ConnectSSE(m)
       /\ fetching' = [fetching EXCEPT ![m] = 0]
       /\ ideal' = [ideal EXCEPT ![m] = [bids |-> vb.bids, asks |-> vb.asks]]
       /\ valid' = [valid EXCEPT ![m] = TRUE]
       /\ handled' = Handled("snapshot", m, FALSE, FALSE)
       /\ gap' = [gap EXCEPT ![m] = FALSE]
       /\ UNCHANGED <<reconnectTimeouts, strayTimers, subClosed>>

\* subscribeOrderbook(m, cb) after getOrderbook() threw
SnapshotFails(m) ==
    /\ UNCHANGED <<fairVars, quoteVars, orderVars, notifyVars, cacheVars>>
    /\ /\ fetching[m] # 0
       /\ fetching' = [fetching EXCEPT ![m] = 0]
       /\ handled' = Handled("fetchfail", m, FALSE, FALSE)
       /\ called' = <<>>
       /\ UNCHANGED <<eventSources, localOrderbooks, callbacks, reconnectTimeouts,
                      strayTimers, sources, ideal, valid, subClosed, gap>>

\* onopen of source i of market m
SourceOpens(m, i) ==
    /\ UNCHANGED <<fairVars, quoteVars, orderVars, notifyVars, cacheVars>>
    /\ /\ sources[m][i] = "connecting"
       /\ sources' = [sources EXCEPT ![m][i] = "open"]
       /\ reconnectTimeouts' = [reconnectTimeouts EXCEPT ![m] = "none"]
       /\ handled' = Handled("open", m, FALSE, FALSE)
       /\ called' = <<>>
       /\ UNCHANGED <<eventSources, localOrderbooks, callbacks, strayTimers,
                      fetching, ideal, valid, subClosed, gap>>

\* onmessage of source i of market m
SourceMessage(m, i, delta) ==
    /\ UNCHANGED <<fairVars, quoteVars, orderVars, notifyVars, cacheVars>>
    /\ /\ sources[m][i] = "open"
       /\ \E book \in {localOrderbooks[m]} :
          \E new \in {BookAfterDelta(book, delta)} :
          \* the message as the claims classify it
          \E stale \in {book.present /\ book.nonce # NoNonce /\ delta.nonce <= book.nonce} :
          \E malformed \in {delta.shape # "ok"} :
             /\ IF delta.shape = "garbage" \/ ~book.present
                THEN /\ UNCHANGED localOrderbooks
                     /\ called' = <<>>
                ELSE /\ WithinCap(new)
                     /\ localOrderbooks' = [localOrderbooks EXCEPT ![m] = new]
                     /\ called' = IF DeltaNotifies(book, delta) /\ callbacks[m] # 0
                                  THEN <<m, callbacks[m]>> ELSE <<>>
             /\ IF book.present /\ ~stale /\ ~malformed /\ valid[m]
                   /\ EntriesValid(ideal[m].bids, delta.bids)
                   /\ EntriesValid(ideal[m].asks, delta.asks)
                THEN /\ ideal' = [ideal EXCEPT ![m] = [bids |-> AddLots(@.bids, delta.bids),
                                                       asks |-> AddLots(@.asks, delta.asks)]]
                     /\ UNCHANGED valid
                ELSE IF book.present /\ ~stale /\ delta.shape # "garbage"
                THEN /\ ideal' = [ideal EXCEPT ![m] = NoIdeal]
                     /\ valid' = [valid EXCEPT ![m] = FALSE]
                ELSE UNCHANGED <<ideal, valid>>
             /\ handled' = Handled("message", m, stale, malformed)
       /\ UNCHANGED <<eventSources, callbacks, reconnectTimeouts, strayTimers,
                      sources, fetching, subClosed, gap>>

\* a variant of the guard that never asks for a reconnection
HasCallback_Never(m) == FALSE

\* this.callbacks.has(m), the guard of the reconnection in onerror
HasCallback(m) == callbacks[m] # 0

\* onerror of source i of market m
SourceError(m, i) ==
    /\ UNCHANGED <<fairVars, quoteVars, orderVars, notifyVars, cacheVars>>
    /\ /\ sources[m][i] # "none"
       /\ sources' = [sources EXCEPT ![m][i] = "none"]
       /\ eventSources' = [eventSources EXCEPT ![m] = 0]
       /\ IF HasCallback(m)
          THEN /\ reconnectTimeouts[m] = "pending" => strayTimers[m] < MaxStray
               /\ reconnectTimeouts' = [reconnectTimeouts EXCEPT ![m] = "pending"]
               /\ strayTimers' = [strayTimers EXCEPT ![m] =
                                    IF reconnectTimeouts[m] = "pending" THEN @ + 1 ELSE @]
          ELSE UNCHANGED <<reconnectTimeouts, strayTimers>>
       /\ handled' = Handled("error", m, FALSE, FALSE)
       /\ called' = <<>>
       /\ UNCHANGED <<localOrderbooks, callbacks, fetching, ideal, valid, subClosed, gap>>

\* the reconnect timer held by the map fires
TimerFires(m) ==
    /\ UNCHANGED <<fairVars, quoteVars, orderVars, notifyVars, cacheVars>>
    /\ /\ reconnectTimeouts[m] = "pending"
       /\ reconnectTimeouts' = [reconnectTimeouts EXCEPT ![m] = "fired"]
       /\ ConnectSSE(m)
       /\ handled' = Handled("timer", m, FALSE, FALSE)
       /\ gap' = [gap EXCEPT ![m] = TRUE]
       /\ called' = <<>>
       /\ UNCHANGED <<localOrderbooks, callbacks, strayTimers, fetching, ideal,
                      valid, subClosed>>

\* a reconnect timer the map no longer holds fires
StrayTimerFires(m) ==
    /\ UNCHANGED <<fairVars, quoteVars, orderVars, notifyVars, cacheVars>>
    /\ /\ strayTimers[m] > 0
       /\ strayTimers' = [strayTimers EXCEPT ![m] = @ - 1]
       /\ ConnectSSE(m)
       /\ handled' = Handled("timer", m, FALSE, FALSE)
       /\ gap' = [gap EXCEPT ![m] = TRUE]
       /\ called' = <<>>
       /\ UNCHANGED <<localOrderbooks, callbacks, reconnectTimeouts, fetching, ideal,
                      valid, subClosed>>

\* a variant that forgets the callbacks of all markets
Unsubscribe_All(m) ==
    /\ UNCHANGED <<fairVars, quoteVars, orderVars, notifyVars, cacheVars>>
    /\ /\ sources' = IF eventSources[m] # 0
                     THEN [sources EXCEPT ![m][eventSources[m]] = "none"]
                     ELSE sources
       /\ eventSources' = [eventSources EXCEPT ![m] = 0]
       /\ reconnectTimeouts' = [reconnectTimeouts EXCEPT ![m] = "none"]
       /\ localOrderbooks' = [localOrderbooks EXCEPT ![m] = NoBook]
       /\ callbacks' = [o \in Markets |-> 0]
       /\ ideal' = [ideal EXCEPT ![m] = NoIdeal]
       /\ valid' = [valid EXCEPT ![m] = FALSE]
       /\ handled' = Handled("unsubscribe", m, FALSE, FALSE)
       /\ gap' = [gap EXCEPT ![m] = FALSE]
       /\ called' = <<>>
       /\ UNCHANGED <<strayTimers, fetching, subClosed>>

\* unsubscribeOrderbook(m)
Unsubscribe(m) ==
    /\ UNCHANGED <<fairVars, quoteVars, orderVars, notifyVars, cacheVars>>
    /\ /\ sources' = IF eventSources[m] # 0
                     THEN [sources EXCEPT ![m][eventSources[m]] = "none"]
                     ELSE sources
       /\ eventSources' = [eventSources EXCEPT ![m] = 0]
       /\ reconnectTimeouts' = [reconnectTimeouts EXCEPT ![m] = "none"]
       /\ localOrderbooks' = [localOrderbooks EXCEPT ![m] = NoBook]
       /\ callbacks' = [callbacks EXCEPT ![m] = 0]
       /\ ideal' = [ideal EXCEPT ![m] = NoIdeal]
       /\ valid' = [valid EXCEPT ![m] = FALSE]
       /\ handled' = Handled("unsubscribe", m, FALSE, FALSE)
       /\ gap' = [gap EXCEPT ![m] = FALSE]
       /\ called' = <<>>
       /\ UNCHANGED <<strayTimers, fetching, subClosed>>

\* disconnect(): only the timers of markets that have an event source are
\* cleared; the other handles are dropped with the map while their timers run
Disconnect ==
    /\ UNCHANGED <<fairVars, quoteVars, orderVars, notifyVars, cacheVars>>
    /\ /\ \A m \in Markets :
             (eventSources[m] = 0 /\ reconnectTimeouts[m] = "pending")
                 => strayTimers[m] < MaxStray
       /\ sources' = [m \in Markets |->
                        IF eventSources[m] # 0
                        THEN [sources[m] EXCEPT ![eventSources[m]] = "none"]
                        ELSE sources[m]]
       /\ strayTimers' = [m \in Markets |->
                            IF eventSources[m] = 0 /\ reconnectTimeouts[m] = "pending"
                            THEN strayTimers[m] + 1 ELSE strayTimers[m]]
       /\ eventSources' = [m \in Markets |-> 0]
       /\ reconnectTimeouts' = [m \in Markets |-> "none"]
       /\ localOrderbooks' = [m \in Markets |-> NoBook]
       /\ callbacks' = [m \in Markets |-> 0]
       /\ ideal' = [m \in Markets |-> NoIdeal]
       /\ valid' = [m \in Markets |-> FALSE]
       /\ handled' = Handled("disconnect", "", FALSE, FALSE)
       /\ gap' = [m \in Markets |-> FALSE]
       /\ called' = <<>>
       /\ subClosed' = TRUE
       /\ UNCHANGED fetching

\* new AftermathOrderbookSubscription(client)
BookInit ==
    /\ eventSources = [m \in Markets |-> 0]
    /\ localOrderbooks = [m \in Markets |-> NoBook]
    /\ callbacks = [m \in Markets |-> 0]
    /\ reconnectTimeouts = [m \in Markets |-> "none"]
    /\ strayTimers = [m \in Markets |-> 0]
    /\ sources = [m \in Markets |-> [i \in SourceIds |-> "none"]]
    /\ fetching = [m \in Markets |-> 0]
    /\ ideal = [m \in Markets |-> NoIdeal]
    /\ valid = [m \in Markets |-> FALSE]
    /\ handled = Handled("new", "", FALSE, FALSE)
    /\ called = <<>>
    /\ subClosed = FALSE
    /\ gap = [m \in Markets |-> FALSE]

\* ------------------------------------------------------------------------
\* Quoter and PositionManager
\* ------------------------------------------------------------------------

\* largest sizePrecision of a venue market
MaxPrecision == 2

Symbols == {"BTC", "HYPE", "SUI"}

\* configurations validateConfig accepts: DEFAULT_CONFIG, and one with a
\* take-profit spread of zero, which validateConfig does not look at
QuoterConfigs ==
    { [symbol |-> s, spreadBps |-> FromInt(10), takeProfitBps |-> FromInt(5),
       orderSizeUsd |-> FromInt(100), closeThresholdUsd |-> FromInt(500),
       maxPositionUsd |-> FromInt(2000)] : s \in Symbols }
    \cup
    { [symbol |-> "BTC", spreadBps |-> FromInt(1), takeProfitBps |-> FZero,
       orderSizeUsd |-> FromInt(10), closeThresholdUsd |-> FromInt(600),
       maxPositionUsd |-> FromInt(680)] }

\* validateConfig on the numeric fields
ValidConfig(cfg) ==
    /\ cfg.symbol # ""
    /\ ~FLe(cfg.spreadBps, FZero)
    /\ ~FLe(cfg.orderSizeUsd, FZero)
    /\ ~FLe(cfg.closeThresholdUsd, FZero)
    /\ ~FLe(cfg.maxPositionUsd, cfg.closeThresholdUsd)

NoMarket == [symbol |-> "", tickSize |-> Null, sizePrecision |-> -1]

\* market metadata of the venue
VenueMarkets ==
    { [symbol |-> s, tickSize |-> Lit(1, 10), sizePrecision |-> 0] : s \in Symbols }
    \cup
    { [symbol |-> s, tickSize |-> Lit(1, 2), sizePrecision |-> MaxPrecision] : s \in Symbols }

\* fair prices handed to generateQuotes
FairPrices == { FromInt(17), FromInt(50), Lit(3, 10000) }

\* a falsy number of a || chain: undefined, 0 or NaN
Falsy(a) == a = Null \/ IsNaN(a) \/ a = FZero

OrNum(a, b) == IF Falsy(a) THEN b ELSE a

NoExchangePosition ==
    [side |-> "none", size |-> FZero, entryPrice |-> FZero, markPrice |-> Null,
     unrealizedPnl |-> FZero, margin |-> Null]

\* positions reported by the exchange; markPrice and margin are optional
ExchangePositions ==
    { [side |-> "long", size |-> FromInt(40), entryPrice |-> FromInt(17),
       markPrice |-> Null, unrealizedPnl |-> FZero, margin |-> Null],
      [side |-> "short", size |-> FromInt(-40), entryPrice |-> FromInt(17),
       markPrice |-> FromInt(15), unrealizedPnl |-> FZero, margin |-> Null],
      [side |-> "none", size |-> FromInt(40), entryPrice |-> FromInt(17),
       markPrice |-> Null, unrealizedPnl |-> FZero, margin |-> FromInt(1)],
      [side |-> "long", size |-> FZero, entryPrice |-> FromInt(17),
       markPrice |-> Null, unrealizedPnl |-> FZero, margin |-> Null] }

MarkPrices == { Null, FromInt(17) }

PositionState(side, size, entryPrice, markPrice, notional, unrealizedPnl, margin) ==
    [symbol |-> config.symbol, side |-> side, size |-> size,
     entryPrice |-> entryPrice, markPrice |-> markPrice, notional |-> notional,
     unrealizedPnl |-> unrealizedPnl, margin |-> margin]

\* a variant that stores the size with the sign the exchange reports
UpdatedPosition_Signed(isNull, exchangePosition, markPrice) ==
    IF isNull \/ exchangePosition.size = FZero
    THEN PositionState("none", FZero, FZero, OrNum(markPrice, FZero), FZero, FZero, FZero)
    ELSE LET price    == OrNum(markPrice, OrNum(exchangePosition.markPrice,
                                                exchangePosition.entryPrice))
             size     == exchangePosition.size
             notional == FMul(size, price)
         IN PositionState(exchangePosition.side, size, exchangePosition.entryPrice,
                          price, notional, exchangePosition.unrealizedPnl,
                          OrNum(exchangePosition.margin, FZero))

\* the position after updatePosition(exchangePosition, markPrice); isNull
\* stands for exchangePosition = null
UpdatedPosition(isNull, exchangePosition, markPrice) ==
    IF isNull \/ exchangePosition.size = FZero
    THEN PositionState("none", FZero, FZero, OrNum(markPrice, FZero), FZero, FZero, FZero)
    ELSE LET price    == OrNum(markPrice, OrNum(exchangePosition.markPrice,
                                                exchangePosition.entryPrice))
             size     == FAbs(exchangePosition.size)
             notional == FMul(size, price)
         IN PositionState(exchangePosition.side, size, exchangePosition.entryPrice,
                          price, notional, exchangePosition.unrealizedPnl,
                          OrNum(exchangePosition.margin, FZero))

GetSignedNotional ==
    IF position.side = "long" THEN position.notional
    ELSE IF position.side = "short" THEN FNeg(position.notional)
    ELSE FZero

IsCloseMode == FGt(position.notional, config.closeThresholdUsd)

\* a limit test that lets a position exactly at the maximum through
IsAtMax_Above == FGt(position.notional, config.maxPositionUsd)

IsAtMax == FGe(position.notional, config.maxPositionUsd)

CanAddPosition(side) ==
    IF IsAtMax THEN FALSE
    ELSE IF IsCloseMode /\ position.side = "long" /\ side = "buy" THEN FALSE
    ELSE IF IsCloseMode /\ position.side = "short" /\ side = "sell" THEN FALSE
    ELSE TRUE

\* the tick roundToTick works with: chosen by the configured symbol
TickSize ==
    IF config.symbol = "BTC" \/ config.symbol = "ETH" THEN Lit(1, 10)
    ELSE IF config.symbol = "HYPE" THEN Lit(1, 100)
    ELSE Lit(1, 100000)

RoundToTick(price, direction) ==
    IF direction = "down"
    THEN FMul(FFloor(FDiv(price, TickSize)), TickSize)
    ELSE FMul(FCeil(FDiv(price, TickSize)), TickSize)

\* roundSize with this.market = mk
RoundSize(mk, size) ==
    IF mk = NoMarket THEN size
    ELSE LET multiplier == FromInt(10 ^ mk.sizePrecision)
         IN FDiv(FFloor(FMul(size, multiplier)), multiplier)

SpreadMultiplier(spreadBps) == FDiv(spreadBps, FromInt(10000))

\* the unrounded prices of generateQuotes
RawBid(fairPrice, spreadBps) ==
    FMul(fairPrice, FSub(FromInt(1), SpreadMultiplier(spreadBps)))

RawAsk(fairPrice, spreadBps) ==
    FMul(fairPrice, FAdd(FromInt(1), SpreadMultiplier(spreadBps)))

BaseSize(fairPrice) == FDiv(config.orderSizeUsd, fairPrice)

\* close mode zeroing the side that reduces the position
CloseModeSizes_Swapped(isCloseMode, notional, baseSize) ==
    IF ~isCloseMode THEN <<baseSize, baseSize>>
    ELSE IF FGt(notional, FZero) THEN <<baseSize, FZero>>
    ELSE <<FZero, baseSize>>

\* <<bidSize, askSize>> before rounding
CloseModeSizes(isCloseMode, notional, baseSize) ==
    IF ~isCloseMode THEN <<baseSize, baseSize>>
    ELSE IF FGt(notional, FZero) THEN <<FZero, baseSize>>
    ELSE <<baseSize, FZero>>

NoQuote ==
    [bidPrice |-> Null, askPrice |-> Null, bidSize |-> Null, askSize |-> Null,
     fairPrice |-> Null, spreadBps |-> Null, isCloseMode |-> FALSE]

\* a mode test that also fires at the threshold
QuoteCloseMode_AtThreshold(notional) == FGe(FAbs(notional), config.closeThresholdUsd)

\* isCloseMode of generateQuotes
QuoteCloseMode(notional) == FGt(FAbs(notional), config.closeThresholdUsd)

\* the Quote generateQuotes(fairPrice, notional) returns
GeneratedQuote(fairPrice, notional) ==
    LET isCloseMode == QuoteCloseMode(notional)
        spreadBps   == IF isCloseMode THEN config.takeProfitBps ELSE config.spreadBps
        rawBid      == RawBid(fairPrice, spreadBps)
        rawAsk      == RawAsk(fairPrice, spreadBps)
        sizes       == CloseModeSizes(isCloseMode, notional, BaseSize(fairPrice))
    IN [bidPrice    |-> IF market # NoMarket THEN RoundToTick(rawBid, "down") ELSE rawBid,
        askPrice    |-> IF market # NoMarket THEN RoundToTick(rawAsk, "up") ELSE rawAsk,
        bidSize     |-> RoundSize(market, sizes[1]),
        askSize     |-> RoundSize(market, sizes[2]),
        fairPrice   |-> fairPrice,
        spreadBps   |-> spreadBps,
        isCloseMode |-> isCloseMode]

OrderRequest(side, price, size) ==
    [symbol |-> config.symbol, side |-> side, type |-> "limit", price |-> price,
     size |-> size, postOnly |-> TRUE, reduceOnly |-> FALSE]

\* the orders quoteToOrders(q) returns
OrdersOf(q) ==
    (IF FGt(q.bidSize, FZero)
     THEN <<OrderRequest("buy", RoundToTick(q.bidPrice, "down"), RoundSize(market, q.bidSize))>>
     ELSE <<>>)
    \o
    (IF FGt(q.askSize, FZero)
     THEN <<OrderRequest("sell", RoundToTick(q.askPrice, "up"), RoundSize(market, q.askSize))>>
     ELSE <<>>)

NoCall == [fairPrice |-> Null, positionNotional |-> Null, market |-> NoMarket]

\* notionals handed to generateQuotes
PositionNotionals == { FromInt(-600), FZero, FromInt(600) }

\* setMarket with a market of the configured symbol
SetMarket(mk) ==
    /\ UNCHANGED <<fairVars, bookVars, orderVars, notifyVars, cacheVars>>
    /\ mk.symbol = config.symbol
    /\ market' = mk
    /\ UNCHANGED <<config, position, quote, orders, quoteCall, staleCheck>>

UpdatePosition(isNull, exchangePosition, markPrice) ==
    /\ UNCHANGED <<fairVars, bookVars, orderVars, notifyVars, cacheVars>>
    /\ /\ position' = UpdatedPosition(isNull, exchangePosition, markPrice)
       /\ UNCHANGED <<config, market, quote, orders, quoteCall, staleCheck>>

\* a quoter that stays in close mode once the quote before was a closing one
GenerateQuotes_Sticky(fairPrice, notional) ==
    /\ UNCHANGED <<fairVars, bookVars, orderVars, notifyVars, cacheVars>>
    /\ /\ quote' = IF quote.isCloseMode
                   THEN [GeneratedQuote(fairPrice, notional) EXCEPT
                            !.spreadBps = config.takeProfitBps, !.isCloseMode = TRUE]
                   ELSE GeneratedQuote(fairPrice, notional)
       /\ quoteCall' = [fairPrice |-> fairPrice, positionNotional |-> notional,
                        market |-> market]
       /\ orders' = <<>>
       /\ UNCHANGED <<config, market, position, staleCheck>>

\* generateQuotes; the caller drops the orders made from the quote before
GenerateQuotes(fairPrice, notional) ==
    /\ UNCHANGED <<fairVars, bookVars, orderVars, notifyVars, cacheVars>>
    /\ /\ quote' = GeneratedQuote(fairPrice, notional)
       /\ quoteCall' = [fairPrice |-> fairPrice, positionNotional |-> notional,
                        market |-> market]
       /\ orders' = <<>>
       /\ UNCHANGED <<config, market, position, staleCheck>>

\* quoteToOrders on the quote the caller holds
QuoteToOrders ==
    /\ UNCHANGED <<fairVars, bookVars, orderVars, notifyVars, cacheVars>>
    /\ /\ quote # NoQuote
       /\ orders' = OrdersOf(quote)
       /\ UNCHANGED <<config, market, position, quote, quoteCall, staleCheck>>

\* isOrderStale(orderPrice, _orderSide, fairPrice, maxDeviationBps)
IsOrderStale(orderPrice, orderSide, fairPrice, maxDeviationBps) ==
    LET deviation    == FDiv(FAbs(FSub(orderPrice, fairPrice)), fairPrice)
        deviationBps == FMul(deviation, FromInt(10000))
    IN FGt(deviationBps, maxDeviationBps)

NoCheck ==
    [orderPrice |-> Null, orderSide |-> "", fairPrice |-> Null,
     maxDeviationBps |-> Null, result |-> FALSE]

\* order prices, fair prices and thresholds handed to isOrderStale; Null
\* stands for a call without the fourth argument
StaleOrderPrices ==
    { Lit(407, 8), Lit(393, 8), Lit(201, 4), Lit(199, 4), Lit(101, 2), FromInt(49),
      Lit(407, 4), Lit(201, 2), FromInt(100) }

StaleFairPrices == { FromInt(50), FromInt(100) }

StaleThresholds == { Null, FromInt(100), FromInt(175) }

\* a call of isOrderStale
IsOrderStaleCall(orderPrice, orderSide, fairPrice, threshold) ==
    /\ UNCHANGED <<fairVars, bookVars, orderVars, notifyVars, cacheVars>>
    /\ /\ staleCheck' =
             LET maxDeviationBps == IF threshold = Null THEN FromInt(50) ELSE threshold
             IN [orderPrice |-> orderPrice, orderSide |-> orderSide,
                 fairPrice |-> fairPrice, maxDeviationBps |-> maxDeviationBps,
                 result |-> IsOrderStale(orderPrice, orderSide, fairPrice,
                                         maxDeviationBps)]
       /\ UNCHANGED <<config, market, position, quote, orders, quoteCall>>

\* new Quoter(cfg), new PositionManager(cfg)
QuoteInitWith(cfg) ==
    /\ config = cfg
    /\ market = NoMarket
    /\ position = [symbol |-> cfg.symbol, side |-> "none", size |-> FZero,
                   entryPrice |-> FZero, markPrice |-> FZero, notional |-> FZero,
                   unrealizedPnl |-> FZero, margin |-> FZero]
    /\ quote = NoQuote
    /\ orders = <<>>
    /\ quoteCall = NoCall
    /\ staleCheck = NoCheck

QuoteInit == \E cfg \in {c \in QuoterConfigs : ValidConfig(c)} : QuoteInitWith(cfg)

QuoteIdle == QuoteInitWith(CHOOSE c \in QuoterConfigs : c.symbol = "HYPE")

QuoteNext ==
    \/ \E mk \in VenueMarkets : SetMarket(mk)
    \/ \E mp \in MarkPrices : UpdatePosition(TRUE, NoExchangePosition, mp)
    \/ \E ep \in ExchangePositions : \E mp \in MarkPrices : UpdatePosition(FALSE, ep, mp)
    \/ \E fp \in FairPrices : \E pn \in PositionNotionals : GenerateQuotes(fp, pn)
    \/ \E fp \in FairPrices : GenerateQuotes(fp, GetSignedNotional)
    \/ QuoteToOrders

\* ------------------------------------------------------------------------
\* Aftermath orders: buildAndSubmit
\* ------------------------------------------------------------------------

\* calls of placeOrder or cancelOrders in flight at the same time
MaxWrites == 2

WriteIds == 1 .. MaxWrites

\* transactionBytes a build response can carry
TxBytes == {1, 2}

\* pc: "idle" (not called), "account" (awaiting getAccountCap), "build"
\* (awaiting the build response), "sign" (awaiting signTransaction), "submit"
\* (awaiting the submit response), "done" (resolved), "failed" (rejected);
\* bytes: buildResponse.transactionBytes, 0 before the response;
\* failedAt: the await that rejected
NoWrite ==
    [kind |-> "none", pc |-> "idle", bytes |-> 0, signed |-> FALSE, failedAt |-> "none"]

BuildRequest(w) == [call |-> w, phase |-> "build", transactionBytes |-> 0]

\* the body of the submit request: the bytes of this call's build response
SubmitRequest(w) ==
    [call |-> w, phase |-> "submit", transactionBytes |-> writes[w].bytes]

\* placeOrder(client, signer, walletAddress, chId, order) is called
PlaceOrder(w) ==
    /\ UNCHANGED <<fairVars, bookVars, quoteVars, notifyVars, cacheVars>>
    /\ writes[w].pc = "idle"
    /\ \A v \in WriteIds : writes[v].pc = "idle" => w <= v
    /\ writes' = [writes EXCEPT ![w] = [@ EXCEPT !.kind = "place", !.pc = "account"]]
    /\ UNCHANGED requests

\* cancelOrders(..., orderIds) is called; an empty list returns at once
CancelOrders(w, count) ==
    /\ UNCHANGED <<fairVars, bookVars, quoteVars, notifyVars, cacheVars>>
    /\ writes[w].pc = "idle"
    /\ \A v \in WriteIds : writes[v].pc = "idle" => w <= v
    /\ writes' = [writes EXCEPT ![w] =
                     [@ EXCEPT !.kind = "cancel",
                               !.pc = IF count = 0 THEN "done" ELSE "account"]]
    /\ UNCHANGED requests

\* getAccountCap resolves: buildAndSubmit posts the build request
AccountResolves(w) ==
    /\ UNCHANGED <<fairVars, bookVars, quoteVars, notifyVars, cacheVars>>
    /\ writes[w].pc = "account"
    /\ writes' = [writes EXCEPT ![w].pc = "build"]
    /\ requests' = Append(requests, BuildRequest(w))

\* the call after the await at pc rejected: the rejection reaches the caller
Rejected(w, at) == [writes EXCEPT ![w] = [@ EXCEPT !.pc = "failed", !.failedAt = at]]

\* getAccountCap rejects
AccountFails(w) ==
    /\ UNCHANGED <<fairVars, bookVars, quoteVars, notifyVars, cacheVars>>
    /\ writes[w].pc = "account"
    /\ writes' = Rejected(w, "account")
    /\ UNCHANGED requests

\* the build request fails
BuildFails(w) ==
    /\ UNCHANGED <<fairVars, bookVars, quoteVars, notifyVars, cacheVars>>
    /\ writes[w].pc = "build"
    /\ writes' = Rejected(w, "build")
    /\ UNCHANGED requests

\* the build response arrives: the digest goes to the signer
BuildSucceeds(w, b) ==
    /\ UNCHANGED <<fairVars, bookVars, quoteVars, notifyVars, cacheVars>>
    /\ writes[w].pc = "build"
    /\ writes' = [writes EXCEPT ![w] = [@ EXCEPT !.pc = "sign", !.bytes = b]]
    /\ UNCHANGED requests

\* a signer whose failure is swallowed and the submit request sent anyway
SignFails_Submits(w) ==
    /\ UNCHANGED <<fairVars, bookVars, quoteVars, notifyVars, cacheVars>>
    /\ writes[w].pc = "sign"
    /\ writes' = [writes EXCEPT ![w] = [@ EXCEPT !.pc = "submit", !.failedAt = "sign"]]
    /\ requests' = Append(requests, SubmitRequest(w))

\* signer.signTransaction rejects
SignFails(w) ==
    /\ UNCHANGED <<fairVars, bookVars, quoteVars, notifyVars, cacheVars>>
    /\ writes[w].pc = "sign"
    /\ writes' = Rejected(w, "sign")
    /\ UNCHANGED requests

\* signer.signTransaction resolves: the submit request is posted
SignSucceeds(w) ==
    /\ UNCHANGED <<fairVars, bookVars, quoteVars, notifyVars, cacheVars>>
    /\ writes[w].pc = "sign"
    /\ writes' = [writes EXCEPT ![w] = [@ EXCEPT !.pc = "submit", !.signed = TRUE]]
    /\ requests' = Append(requests, SubmitRequest(w))

\* the submit request fails
SubmitFails(w) ==
    /\ UNCHANGED <<fairVars, bookVars, quoteVars, notifyVars, cacheVars>>
    /\ writes[w].pc = "submit"
    /\ writes' = Rejected(w, "submit")
    /\ UNCHANGED requests

\* the submit response arrives
SubmitSucceeds(w) ==
    /\ UNCHANGED <<fairVars, bookVars, quoteVars, notifyVars, cacheVars>>
    /\ writes[w].pc = "submit"
    /\ writes' = [writes EXCEPT ![w].pc = "done"]
    /\ UNCHANGED requests

WriteInit ==
    /\ writes = [w \in WriteIds |-> NoWrite]
    /\ requests = <<>>

WriteNext ==
    \/ \E w \in WriteIds : PlaceOrder(w)
    \/ \E w \in WriteIds : \E count \in {0, 1} : CancelOrders(w, count)
    \/ \E w \in WriteIds : AccountResolves(w)
    \/ \E w \in WriteIds : AccountFails(w)
    \/ \E w \in WriteIds : \E b \in TxBytes : BuildSucceeds(w, b)
    \/ \E w \in WriteIds : BuildFails(w)
    \/ \E w \in WriteIds : SignSucceeds(w)
    \/ \E w \in WriteIds : SignFails(w)
    \/ \E w \in WriteIds : SubmitSucceeds(w)
    \/ \E w \in WriteIds : SubmitFails(w)

\* ------------------------------------------------------------------------
\* Aftermath markets cache: getMarkets, clearMarketsCache
\* ------------------------------------------------------------------------

CACHE_TTL_MS == 60000

\* getMarkets calls that can be in flight together
MaxCalls == 2

\* the clock advances in steps of CacheStep up to MaxCacheClock
CacheStep == 30000

MaxCacheClock == 90000

CallIds == 1 .. MaxCalls

\* the lists the server can answer with
ListVersions == {1, 2}

NoFetch == [pc |-> "idle", now |-> 0, result |-> 0]

\* the test at the head of getMarkets
ServedFromCache(forceRefresh) ==
    ~forceRefresh /\ marketsCache # 0 /\ cacheNow - cacheTimestamp < CACHE_TTL_MS

\* getMarkets(client, forceRefresh) up to its return or its await
GetMarkets(c, forceRefresh) ==
    /\ UNCHANGED <<fairVars, bookVars, quoteVars, orderVars, notifyVars>>
    /\ /\ fetches[c].pc # "fetching"
       /\ fetches' = [fetches EXCEPT ![c] =
              IF ServedFromCache(forceRefresh)
              THEN [pc |-> "cached", now |-> cacheNow, result |-> marketsCache]
              ELSE [pc |-> "fetching", now |-> cacheNow, result |-> 0]]
       /\ cacheOp' = [op |-> "getMarkets", call |-> c, forceRefresh |-> forceRefresh]
       /\ cleared' = FALSE
       /\ UNCHANGED <<marketsCache, cacheTimestamp, cacheNow>>

\* client.get resolves with list v: the cache is updated and the list returned
FetchSucceeds(c, v) ==
    /\ UNCHANGED <<fairVars, bookVars, quoteVars, orderVars, notifyVars>>
    /\ /\ fetches[c].pc = "fetching"
       /\ marketsCache' = v
       /\ cacheTimestamp' = fetches[c].now
       /\ fetches' = [fetches EXCEPT ![c].pc = "fetched", ![c].result = v]
       /\ cacheOp' = [op |-> "fetched", call |-> c, forceRefresh |-> FALSE]
       /\ UNCHANGED <<cacheNow, cleared>>

\* client.get rejects (or the mapping throws): the error is rethrown
FetchFails(c) ==
    /\ UNCHANGED <<fairVars, bookVars, quoteVars, orderVars, notifyVars>>
    /\ /\ fetches[c].pc = "fetching"
       /\ fetches' = [fetches EXCEPT ![c].pc = "failed"]
       /\ cacheOp' = [op |-> "failed", call |-> c, forceRefresh |-> FALSE]
       /\ UNCHANGED <<marketsCache, cacheTimestamp, cacheNow, cleared>>

\* clearMarketsCache()
ClearMarketsCache ==
    /\ UNCHANGED <<fairVars, bookVars, quoteVars, orderVars, notifyVars>>
    /\ /\ marketsCache' = 0
       /\ cacheTimestamp' = 0
       /\ cacheOp' = [op |-> "clear", call |-> 0, forceRefresh |-> FALSE]
       /\ cleared' = TRUE
       /\ UNCHANGED <<cacheNow, fetches>>

\* time passes
CacheTick ==
    /\ UNCHANGED <<fairVars, bookVars, quoteVars, orderVars, notifyVars>>
    /\ /\ cacheNow + CacheStep <= MaxCacheClock
       /\ cacheNow' = cacheNow + CacheStep
       /\ cacheOp' = [op |-> "tick", call |-> 0, forceRefresh |-> FALSE]
       /\ UNCHANGED <<marketsCache, cacheTimestamp, fetches, cleared>>

\* the process starts some time after the epoch with an empty cache
CacheInit ==
    /\ marketsCache = 0
    /\ cacheTimestamp = 0
    /\ cacheNow = CacheStep
    /\ fetches = [c \in CallIds |-> NoFetch]
    /\ cacheOp = [op |-> "none", call |-> 0, forceRefresh |-> FALSE]
    /\ cleared = FALSE

CacheNext ==
    \/ \E c \in CallIds : \E f \in BOOLEAN : GetMarkets(c, f)
    \/ \E c \in CallIds : \E v \in ListVersions : FetchSucceeds(c, v)
    \/ \E c \in CallIds : FetchFails(c)
    \/ ClearMarketsCache
    \/ CacheTick

\* ------------------------------------------------------------------------
\* Specifications
\* ------------------------------------------------------------------------

\* deltas of the specification of the whole subscription
FewDeltas ==
    { Delta("ok", <<<<2, 2>>>>, <<<<2, -1>>>>, 1),
      Delta("noasks", <<<<3, -1>>>>, <<>>, 1),
      Delta("garbage", <<>>, <<>>, 0) }

\* one market over a transport that does not fail, every delta
BookNext ==
    \/ Subscribe("m1", 1)
    \/ \E vb \in VenueBooks : \E n \in SnapshotNonces : SnapshotArrives("m1", vb, n)
    \/ \E i \in SourceIds : SourceOpens("m1", i)
    \/ \E i \in SourceIds : \E d \in RichDeltas : SourceMessage("m1", i, d)
    \/ Unsubscribe("m1")

\* the whole subscription manager, the caller and the venue acting on the
\* markets of M
SubNextOver(M) ==
    \/ \E m \in M : \E cb \in CallbackIds : Subscribe(m, cb)
    \/ \E m \in M : \E n \in SnapshotNonces :
          SnapshotArrives(m, CHOOSE vb \in VenueBooks : vb.bids[3] = 1, n)
    \/ \E m \in M : SnapshotFails(m)
    \/ \E m \in M : \E i \in SourceIds : SourceOpens(m, i)
    \/ \E m \in M : \E i \in SourceIds : \E d \in FewDeltas : SourceMessage(m, i, d)
    \/ \E m \in M : \E i \in SourceIds : SourceError(m, i)
    \/ \E m \in M : TimerFires(m)
    \/ \E m \in M : StrayTimerFires(m)
    \/ \E m \in M : Unsubscribe(m)
    \/ Disconnect

SubNext == SubNextOver({"m1"})

vars == <<fairVars, bookVars, quoteVars, orderVars, notifyVars, cacheVars>>

\* every specification constructs all objects and runs one of them
Init(fair, book, quoter) == fair /\ book /\ quoter /\ WriteInit /\ NotifyInit /\ CacheInit

SpecFair ==
    Init(FairInit, BookInit, QuoteIdle)
    /\ [][FairNext]_vars

SpecBook ==
    Init(FairIdle, BookInit, QuoteIdle)
    /\ [][BookNext]_vars

SpecSub ==
    Init(FairIdle, BookInit, QuoteIdle)
    /\ [][SubNext]_vars

SpecQuote ==
    Init(FairIdle, BookInit, QuoteInit)
    /\ [][QuoteNext]_vars

\* one market of the orderbook stream over a transport that fails
ReconnectNext ==
    \/ \E cb \in CallbackIds : Subscribe("m1", cb)
    \/ SnapshotArrives("m1", CHOOSE vb \in VenueBooks : vb.bids[3] = 1, 0)
    \/ \E i \in SourceIds : SourceOpens("m1", i)
    \/ \E i \in SourceIds : \E d \in FewDeltas : SourceMessage("m1", i, d)
    \/ \E i \in SourceIds : SourceError("m1", i)
    \/ TimerFires("m1")
    \/ StrayTimerFires("m1")
    \/ Unsubscribe("m1")

\* A timer that was set and not cleared fires after its delay (weak
\* fairness of the timer callbacks).  Connection attempts eventually
\* succeed: an attempt that can be made again and again is not refused for
\* ever (strong fairness of onopen).
SpecReconnect ==
    Init(FairIdle, BookInit, QuoteIdle)
    /\ [][ReconnectNext]_vars
    /\ WF_vars(TimerFires("m1"))
    /\ WF_vars(StrayTimerFires("m1"))
    /\ \A i \in SourceIds : SF_vars(SourceOpens("m1", i))

\* two markets of one subscription manager; the transport of m2 fails
TwoNext ==
    \/ \E m \in Markets : Subscribe(m, 1)
    \/ \E m \in Markets : SnapshotArrives(m, CHOOSE vb \in VenueBooks : vb.bids[3] = 1, 0)
    \/ \E m \in Markets : \E i \in SourceIds : SourceOpens(m, i)
    \/ \E m \in Markets : \E i \in SourceIds :
          SourceMessage(m, i, Delta("ok", <<<<2, 2>>>>, <<<<2, -1>>>>, 1))
    \/ \E i \in SourceIds : SourceError("m2", i)
    \/ TimerFires("m2")
    \/ StrayTimerFires("m2")
    \/ \E m \in Markets : Unsubscribe(m)

SpecTwo ==
    Init(FairIdle, BookInit, QuoteIdle)
    /\ [][TwoNext]_vars

\* calls of the staleness test of a Quoter
StaleNext ==
    \E orderPrice \in StaleOrderPrices : \E orderSide \in {"buy", "sell"} :
    \E fairPrice \in StaleFairPrices : \E threshold \in StaleThresholds :
        IsOrderStaleCall(orderPrice, orderSide, fairPrice, threshold)

SpecStale ==
    Init(FairIdle, BookInit, QuoteIdle)
    /\ [][StaleNext]_vars

\* calls of placeOrder and cancelOrders, their awaits resolving in any order
SpecWrite ==
    Init(FairIdle, BookInit, QuoteIdle)
    /\ [][WriteNext]_vars

\* the calculator and its feed while the clock stands still
EmaNext ==
    \/ FairConnect
    \/ FairDisconnect
    \/ ReconnectTimerFires
    \/ \E s \in SocketIds : SocketOpen(s)
    \/ \E s \in SocketIds : SocketFails(s)
    \/ \E s \in SocketIds : SocketCloses(s)
    \/ \E s \in SocketIds : \E msg \in TradeMessages : SocketMessage(s, msg)

SpecEma ==
    Init(FairInit, BookInit, QuoteIdle)
    /\ [][EmaNext]_vars

SpecCache ==
    Init(FairIdle, BookInit, QuoteIdle)
    /\ [][CacheNext]_vars

\* a calculator whose listeners come and go while one connection feeds it
NotifyNext ==
    \/ FairConnect
    \/ \E s \in SocketIds : SocketOpen(s)
    \/ \E s \in SocketIds : \E msg \in TradeMessages : SocketMessage(s, msg)
    \/ \E c \in CallbackFns : OnPriceUpdate(c)
    \/ \E c \in CallbackFns : OffPriceUpdate(c)
    \/ Tick

SpecNotify ==
    Init(FairInit, BookInit, QuoteIdle)
    /\ [][NotifyNext]_vars

\* constructor arguments with a window shorter than a second, a negative
\* window and an explicit alpha, next to those of FairConfigs
ConstructorConfigs ==
    FairConfigs \cup
    { [windowMs |-> 500, alpha |-> FZero, minPrices |-> 2, warmupMs |-> 5000],
      [windowMs |-> -3000, alpha |-> FZero, minPrices |-> 2, warmupMs |-> 5000],
      [windowMs |-> 3000, alpha |-> Lit(3, 2), minPrices |-> 2, warmupMs |-> 5000] }

\* a calculator constructed with any of these arguments, fed over one
\* connection that stays up
ConstructNext ==
    \/ FairConnect
    \/ \E s \in SocketIds : SocketOpen(s)
    \/ \E s \in SocketIds : \E msg \in TradeMessages : SocketMessage(s, msg)
    \/ Tick

SpecConstruct ==
    Init(\E cfg \in ConstructorConfigs : FairInitWith(cfg), BookInit, QuoteIdle)
    /\ [][ConstructNext]_vars

\* the trade feed without its ticks, over a transport that fails
FeedNext ==
    \/ FairConnect
    \/ FairDisconnect
    \/ ReconnectTimerFires
    \/ \E s \in SocketIds : SocketOpen(s)
    \/ \E s \in SocketIds : SocketFails(s)
    \/ \E s \in SocketIds : SocketCloses(s)

\* the same scheduling assumptions for the trade feed
SpecFeed ==
    Init(FairIdle, BookInit, QuoteIdle)
    /\ [][FeedNext]_vars
    /\ WF_vars(ReconnectTimerFires)
    /\ \A s \in SocketIds : SF_vars(SocketOpen(s))

\* ------------------------------------------------------------------------
\* Properties of the FairPriceCalculator
\* ------------------------------------------------------------------------

\* C1: getFairPrice() is null whenever the elapsed time is below the warmup
\* period or fewer than minPrices ticks were received, and isReady() implies
\* that both thresholds are met.
C1_NullBeforeReady ==
    /\ (elapsed < warmupMs \/ priceCount < minPrices) => GetFairPrice = Null
    /\ IsReady => (elapsed >= warmupMs /\ priceCount >= minPrices)

\* ticks were received and the warmup time is over, but there are too few ticks
C1_Witness ==
    /\ ema # Null
    /\ elapsed >= warmupMs
    /\ priceCount < minPrices
    /\ GetFairPrice = Null

\* C2: once getFairPrice() is not null it is not null after any further step
\* (tick, clock advance, disconnect, reconnect).
C2_ReadyStaysReady == [][GetFairPrice # Null => GetFairPrice' # Null]_vars

\* a ready calculator whose feed was disconnected after further ticks
C2_Witness ==
    /\ GetFairPrice # Null
    /\ feedClosed
    /\ priceCount > minPrices


\* ------------------------------------------------------------------------
\* Properties of the local orderbook
\* ------------------------------------------------------------------------

BookOf(m) == localOrderbooks[m]

\* C3: a delta whose nonce is at most the book's lastNonce (a repeated delta
\* included) changes nothing of the local book and does not reach the
\* subscriber.
C3_StaleDeltaIsNoOp ==
    [][(handled'.op = "message" /\ handled'.stale)
          => (localOrderbooks' = localOrderbooks /\ called' = <<>>)]_vars

\* a delta carrying the book's current nonce has just been handled
C3_Witness ==
    /\ handled.op = "message" /\ handled.stale
    /\ BookOf("m1").present /\ BookOf("m1").nonce = MaxNonce
    /\ BookOf("m1").bids # <<>>

\* C4: as long as only valid deltas were applied, in increasing nonce order,
\* the book equals the snapshot of the cumulative per-price sizes.
C4_IncrementalEqualsSnapshot ==
    \A m \in Markets :
        (BookOf(m).present /\ valid[m])
            => /\ BookOf(m).bids = LevelsFrom(ideal[m].bids, TRUE, Cardinality(Prices))
               /\ BookOf(m).asks = LevelsFrom(ideal[m].asks, FALSE, Cardinality(Prices))

StrictlyDescending(levels) ==
    \A i \in 1 .. Len(levels) - 1 : levels[i][1] > levels[i + 1][1]

StrictlyAscending(levels) ==
    \A i \in 1 .. Len(levels) - 1 : levels[i][1] < levels[i + 1][1]

\* C5: after any sequence of deltas the bids are strictly descending and the
\* asks strictly ascending by price.
C5_SidesStrictlySorted ==
    \A m \in Markets :
        /\ StrictlyDescending(BookOf(m).bids)
        /\ StrictlyAscending(BookOf(m).asks)

\* deltas were applied and both sides hold a level at every price
C5_Witness ==
    /\ handled.op = "message" /\ ~handled.stale /\ ~handled.malformed
    /\ BookOf("m1").nonce = MaxNonce
    /\ Len(BookOf("m1").bids) = Cardinality(Prices)
    /\ Len(BookOf("m1").asks) = Cardinality(Prices)

\* C6: a delta message whose processing fails leaves levels, timestamp and
\* lastNonce of the local book as they were.
C6_FailedDeltaChangesNothing ==
    [][(handled'.op = "message" /\ handled'.malformed)
          => localOrderbooks' = localOrderbooks]_vars

\* ------------------------------------------------------------------------
\* Properties of the stream lifecycle
\* ------------------------------------------------------------------------

NoTimerPending ==
    \A m \in Markets : reconnectTimeouts[m] # "pending" /\ strayTimers[m] = 0

\* C7: while disconnect() is the caller's last request, no reconnect timer is
\* pending and no transport connection is opened.
C7_NoReconnectAfterClose ==
    [][subClosed' =>
         /\ NoTimerPending'
         /\ subClosed =>
               \A m \in Markets : \A i \in SourceIds :
                   sources'[m][i] = "connecting" => sources[m][i] = "connecting"]_vars

\* C8: a second disconnect() changes nothing, and while disconnect() is the
\* caller's last request no callback is invoked.
C8_ClosedStreamIsSilent ==
    [][/\ subClosed' => called' = <<>>
       /\ (handled.op = "disconnect" /\ handled'.op = "disconnect")
             => UNCHANGED bookVars]_vars


\* ------------------------------------------------------------------------
\* Properties of the Quoter
\* ------------------------------------------------------------------------

\* the size a side has when close mode does not zero it
KeptSize == RoundSize(quoteCall.market, BaseSize(quote.fairPrice))

\* C9: in a quote with isCloseMode = true, a positive positionNotional (long)
\* gives bidSize = 0 and a negative one (short) gives askSize = 0, and the
\* other side has the base size.
C9_CloseModeZeroesAddingSide ==
    (quote # NoQuote /\ quote.isCloseMode) =>
        /\ FGt(quoteCall.positionNotional, FZero)
              => (quote.bidSize = FZero /\ quote.askSize = KeptSize)
        /\ FLt(quoteCall.positionNotional, FZero)
              => (quote.askSize = FZero /\ quote.bidSize = KeptSize)

\* a close-mode quote for a short position, made with a market set, that
\* keeps a positive bid size
C9_Witness ==
    /\ quote # NoQuote /\ quote.isCloseMode
    /\ quoteCall.market # NoMarket
    /\ FLt(quoteCall.positionNotional, FZero)
    /\ quote.askSize = FZero
    /\ FGt(quote.bidSize, FZero)

\* prices roundToTick is probed with
ProbePrices == { Lit(n, 10) : n \in 1 .. 20 }

\* C10: roundToTick of a positive price is at most the price in direction
\* "down" and at least the price in direction "up", and in every quote the
\* bid is at most and the ask at least the unrounded price.
C10_RoundingNeverNarrows ==
    /\ \A p \in ProbePrices :
          FLe(RoundToTick(p, "down"), p) /\ FGe(RoundToTick(p, "up"), p)
    /\ quote # NoQuote =>
          /\ FLe(quote.bidPrice, RawBid(quote.fairPrice, quote.spreadBps))
          /\ FGe(quote.askPrice, RawAsk(quote.fairPrice, quote.spreadBps))

\* C11: a quote has isCloseMode = true exactly when the absolute notional is
\* above closeThresholdUsd (a notional at the threshold gives normal mode),
\* and the spread it reports and applies to both prices is takeProfitBps in
\* close mode and spreadBps otherwise.
C11_ModeAndSpread ==
    quote # NoQuote =>
        LET above == FLt(config.closeThresholdUsd, quoteCall.positionNotional)
                     \/ FLt(quoteCall.positionNotional, FNeg(config.closeThresholdUsd))
            bps   == IF above THEN config.takeProfitBps ELSE config.spreadBps
        IN /\ quote.isCloseMode = above
           /\ quote.spreadBps = bps
           /\ quoteCall.market = NoMarket =>
                 /\ quote.bidPrice = RawBid(quote.fairPrice, bps)
                 /\ quote.askPrice = RawAsk(quote.fairPrice, bps)
           /\ quoteCall.market # NoMarket =>
                 /\ quote.bidPrice = RoundToTick(RawBid(quote.fairPrice, bps), "down")
                 /\ quote.askPrice = RoundToTick(RawAsk(quote.fairPrice, bps), "up")

\* a quote for a notional exactly at the threshold, in normal mode
C11_Witness ==
    /\ quote # NoQuote
    /\ FAbs(quoteCall.positionNotional) = config.closeThresholdUsd
    /\ ~quote.isCloseMode
    /\ quote.spreadBps = config.spreadBps
    /\ config.spreadBps # config.takeProfitBps

\* the price is a whole number of ticks
IsTickMultiple(p) ==
    \E k \in {FFloor(FDiv(p, TickSize)), FCeil(FDiv(p, TickSize))} :
        p = FMul(k, TickSize)

\* C12: a quote for a notional that is not above the threshold has
\* isCloseMode = false, a bid that is a whole number of ticks at or below
\* fairPrice * (1 - spreadBps / 10000), an ask that is a whole number of
\* ticks at or above fairPrice * (1 + spreadBps / 10000), and both sizes
\* equal to the floor-rounded base size.
C12_NormalModeQuote ==
    (quote # NoQuote /\ ~FGt(FAbs(quoteCall.positionNotional), config.closeThresholdUsd))
        => /\ ~quote.isCloseMode
           /\ IsTickMultiple(quote.bidPrice)
           /\ FLe(quote.bidPrice, RawBid(quote.fairPrice, config.spreadBps))
           /\ IsTickMultiple(quote.askPrice)
           /\ FGe(quote.askPrice, RawAsk(quote.fairPrice, config.spreadBps))
           /\ quote.bidSize = KeptSize
           /\ quote.askSize = KeptSize

\* the sizes of the latest quote that are not zero
QuotedSizes == {quote.bidSize, quote.askSize} \ {FZero}

\* C13: every non-zero size of a quote is orderSizeUsd / fairPrice rounded
\* down to the size precision of the market, is not above the unrounded
\* base size, and size * fairPrice is not above orderSizeUsd.
C13_SizeNeverRoundedUp ==
    quote # NoQuote =>
        \A size \in QuotedSizes :
            /\ quoteCall.market # NoMarket
                  => size = RoundSize(quoteCall.market, BaseSize(quote.fairPrice))
            /\ FLe(size, BaseSize(quote.fairPrice))
            /\ FLe(FMul(size, quote.fairPrice), config.orderSizeUsd)

\* the side adds to the position held
AddsExposure(side) ==
    \/ position.side = "long" /\ side = "buy"
    \/ position.side = "short" /\ side = "sell"

\* C14: canAddPosition(side) is false when the position notional is at or
\* above maxPositionUsd, false when the notional is above closeThresholdUsd
\* and the side adds exposure, and true in every other case.
C14_CanAddPosition ==
    \A side \in {"buy", "sell"} :
        CanAddPosition(side) =
            ~ \/ ~FLt(position.notional, config.maxPositionUsd)
              \/ /\ FLt(config.closeThresholdUsd, position.notional)
                 /\ AddsExposure(side)

\* a long position in close mode below the maximum: buying is refused,
\* selling is allowed
C14_Witness ==
    /\ position.side = "long"
    /\ FGt(position.notional, config.closeThresholdUsd)
    /\ FLt(position.notional, config.maxPositionUsd)
    /\ ~CanAddPosition("buy")
    /\ CanAddPosition("sell")

\* the state of a PositionManager without a position
ZeroPosition == PositionState("none", FZero, FZero, FZero, FZero, FZero, FZero)

\* C15: the position state is a function of the latest snapshot alone, and a
\* state without size (snapshot null or of size 0) is the zero state: side
\* none and size, entryPrice, markPrice, notional, unrealizedPnl, margin 0.
C15_PositionReplacedWholesale ==
    /\ position \in
          {ZeroPosition}
          \cup {UpdatedPosition(TRUE, NoExchangePosition, mp) : mp \in MarkPrices}
          \cup {UpdatedPosition(FALSE, ep, mp) : ep \in ExchangePositions, mp \in MarkPrices}
    /\ position.size = FZero => position = ZeroPosition

\* C16: a delta is applied to the local book of a market only if the book
\* was loaded from a snapshot after the latest reconnect of the market's
\* stream.
C16_SnapshotBeforeDeltasAfterReconnect ==
    [][(handled'.op = "message" /\ localOrderbooks' # localOrderbooks)
          => ~gap[handled'.m]]_vars

\* the reconnect timers of market m that were set and have neither fired nor
\* been cleared: the one the map holds and those whose handle was overwritten
PendingTimers(m) ==
    (IF reconnectTimeouts[m] = "pending" THEN 1 ELSE 0) + strayTimers[m]

\* C17: at most one reconnect timer is pending per market of the orderbook
\* stream, whatever sequence of failures occurred.
C17_AtMostOneReconnectTimer == \A m \in Markets : PendingTimers(m) <= 1

\* an EventSource of market m is open: its onmessage applies the deltas of
\* m and notifies the callback registered for m
Delivering(m) == \E i \in SourceIds : sources[m][i] = "open"

\* the stream of market m lost its transport and was not unsubscribed
Down(m) == callbacks[m] # 0 /\ eventSources[m] = 0

FeedOpen == \E s \in SocketIds : sockets[s].st = "open"

\* the trade feed recovers in the same way: a pending reconnect timer of a
\* feed that was not closed leads to an open socket, unless the owner
\* disconnects
FeedReconnects == (reconnectTimeout /\ ~feedClosed) ~> (FeedOpen \/ feedClosed)

\* the connection state of the trade feed
feedState == <<ws, isConnecting, shouldReconnect, reconnectTimeout, sockets>>

\* C19: a message from which no valid price is obtained (a payload
\* JSON.parse rejects, or one without the price field) is dropped: the
\* average and the sample count keep their values, and the connection state
\* and the reconnect timer are untouched.
C19_InvalidTickDropped ==
    [][\A s \in SocketIds : \A msg \in TradeMessages :
          (IsNaN(ParsedPrice(msg)) /\ SocketMessage(s, msg))
              => UNCHANGED <<ema, priceCount, feedState>>]_vars

\* everything the subscription manager holds for market o
MarketEntry(o) ==
    <<eventSources[o], sources[o], localOrderbooks[o], callbacks[o],
      reconnectTimeouts[o], strayTimers[o], fetching[o]>>

\* the transport entry of market o is an open EventSource
Live(o) == eventSources[o] # 0 /\ sources[o][eventSources[o]] = "open"

\* C20: unsubscribeOrderbook(m) leaves the transport entry, the local book,
\* the callback and the reconnect timers of every other market as they
\* were, and an other market whose EventSource is open can still receive
\* its next delta.
C20_UnsubscribeLeavesOthers ==
    /\ [][\A m \in Markets :
             (handled'.op = "unsubscribe" /\ handled'.m = m)
                 => \A o \in Markets \ {m} : MarketEntry(o)' = MarketEntry(o)]_vars
    /\ [](\A o \in Markets :
             (handled.op = "unsubscribe" /\ handled.m # o /\ Live(o))
                 => ENABLED SourceMessage(o, eventSources[o],
                                          Delta("ok", <<<<2, 2>>>>, <<<<2, -1>>>>, 1)))

\* m1 was just unsubscribed while m2 is subscribed over an open EventSource
C20_Witness ==
    /\ handled.op = "unsubscribe"
    /\ handled.m = "m1"
    /\ Live("m2")
    /\ callbacks["m2"] # 0
    /\ localOrderbooks["m2"].present

\* C21: within one local book the nonce never decreases when a delta is
\* handled, and after a delta was applied completely the nonce and the
\* timestamp of the book are those the delta carried.
C21_NonceMonotone ==
    [][handled'.op = "message" =>
         \A m \in {handled'.m} :
            /\ (BookOf(m).present /\ BookOf(m).nonce # NoNonce)
                  => BookOf(m)'.nonce >= BookOf(m).nonce
            /\ (BookOf(m).present /\ ~handled'.stale /\ ~handled'.malformed)
                  => \E d \in RichDeltas :
                        /\ d.shape = "ok"
                        /\ d.nonce = BookOf(m)'.nonce
                        /\ d.timestamp = BookOf(m)'.timestamp
                        /\ ~SkipsDelta(BookOf(m), d)
                        /\ BookOf(m)' = BookAfterDelta(BookOf(m), d)]_vars

\* a delta with a higher nonce was applied to a book that had a nonce
C21_Witness ==
    /\ handled.op = "message" /\ ~handled.stale /\ ~handled.malformed
    /\ BookOf("m1").present
    /\ BookOf("m1").nonce = MaxNonce
    /\ BookOf("m1").timestamp = 200 + MaxNonce

\* configurations that break one rule each, and one that breaks none
ProbeConfigs ==
    LET ok == [symbol |-> "BTC", spreadBps |-> FromInt(10), takeProfitBps |-> FromInt(5),
               orderSizeUsd |-> FromInt(100), closeThresholdUsd |-> FromInt(500),
               maxPositionUsd |-> FromInt(2000)]
    IN { ok,
         [ok EXCEPT !.spreadBps = FZero],
         [ok EXCEPT !.spreadBps = FromInt(-10)],
         [ok EXCEPT !.takeProfitBps = FromInt(-5)],
         [ok EXCEPT !.orderSizeUsd = FZero],
         [ok EXCEPT !.closeThresholdUsd = FromInt(-500)],
         [ok EXCEPT !.maxPositionUsd = FromInt(500)],
         [ok EXCEPT !.maxPositionUsd = FromInt(100)] }

\* C22: validateConfig accepts a configuration exactly when spreadBps,
\* takeProfitBps, orderSizeUsd and closeThresholdUsd are positive and
\* maxPositionUsd is greater than closeThresholdUsd; in particular the
\* configuration a Quoter runs with has these properties.
C22_ConfigValidated ==
    \A cfg \in QuoterConfigs \cup ProbeConfigs \cup {config} :
        ValidConfig(cfg) <=>
            /\ FGt(cfg.spreadBps, FZero)
            /\ FGt(cfg.takeProfitBps, FZero)
            /\ FGt(cfg.orderSizeUsd, FZero)
            /\ FGt(cfg.closeThresholdUsd, FZero)
            /\ FGt(cfg.maxPositionUsd, cfg.closeThresholdUsd)

\* the sides of the orders in a list
OrderSides(os) == { os[i].side : i \in 1 .. Len(os) }

\* C23: quoteToOrders emits a buy order exactly when the quote's bidSize is
\* positive and a sell order exactly when its askSize is positive, and every
\* order it emits has a positive size, whatever calls of setMarket and
\* generateQuotes came before.
C23_ZeroSizeMeansNoOrder ==
    [][QuoteToOrders =>
          /\ ("buy" \in OrderSides(orders')) <=> FGt(quote.bidSize, FZero)
          /\ ("sell" \in OrderSides(orders')) <=> FGt(quote.askSize, FZero)
          /\ \A i \in 1 .. Len(orders') : FGt(orders'[i].size, FZero)]_vars

\* x * 2^ex > y * 2^ey for natural numbers x and y
ExactGt(x, ex, y, ey) ==
    IF x = 0 THEN FALSE
    ELSE IF y = 0 THEN TRUE
    ELSE LET lx == BitLen(x) + ex
             ly == BitLen(y) + ey
         IN IF lx # ly THEN lx > ly
            ELSE IF ex >= ey THEN x * Pow2(ex - ey) > y
            ELSE x > y * Pow2(ey - ex)

\* |orderPrice - fairPrice| / fairPrice * 10000 > maxDeviationBps in exact
\* arithmetic, for a positive fair price
DeviationExceeds(orderPrice, fairPrice, maxDeviationBps) ==
    LET emin == IF orderPrice.e < fairPrice.e THEN orderPrice.e ELSE fairPrice.e
        diff == Abs(orderPrice.m * Pow2(orderPrice.e - emin)
                    - fairPrice.m * Pow2(fairPrice.e - emin))
    IN ExactGt(diff * 10000, emin,
               maxDeviationBps.m * fairPrice.m, maxDeviationBps.e + fairPrice.e)

\* C24: isOrderStale returns true exactly when the deviation of the order
\* price from the fair price, in basis points, is strictly greater than the
\* threshold (50 when none is given), whatever the side; at the threshold
\* the order is not stale.
C24_StaleIffDeviationExceeds ==
    staleCheck # NoCheck =>
        staleCheck.result = DeviationExceeds(staleCheck.orderPrice, staleCheck.fairPrice,
                                             staleCheck.maxDeviationBps)

\* p is the float of an integer multiple of tick
IsMultipleOf(p, tick) ==
    \E k \in {FFloor(FDiv(p, tick)), FCeil(FDiv(p, tick))} : p = FMul(k, tick)

\* C25: once a market is set, the prices of every quote generated and of
\* every order emitted are integer multiples of the tickSize of that market.
C25_PricesOnMarketTick ==
    /\ (quote # NoQuote /\ quoteCall.market # NoMarket)
          => /\ IsMultipleOf(quote.bidPrice, quoteCall.market.tickSize)
             /\ IsMultipleOf(quote.askPrice, quoteCall.market.tickSize)
    /\ market # NoMarket
          => \A i \in 1 .. Len(orders) : IsMultipleOf(orders[i].price, market.tickSize)

\* the Orderbook object a receiver of market m holds: subscribeOrderbook
\* passes to the callback the object it stored in the map, applyDelta passes
\* the object it read from the map and changed in place, and
\* getLocalOrderbook returns the object of the map
HandedOutBook(m) == localOrderbooks[m]

\* C26: the orderbook a receiver was handed (by the callback or by
\* getLocalOrderbook) is not changed by the deltas that arrive later.
C26_HandedOutViewIsStable ==
    [][\A m \in Markets :
          (handled'.op = "message" /\ handled'.m = m /\ HandedOutBook(m).present)
              => HandedOutBook(m)' = HandedOutBook(m)]_vars

C28_EmaUpdateRule ==
    [][/\ (ema = Null <=> priceCount = 0)
       /\ alpha' = alpha
       /\ (ema # Null => ema' # Null)
       /\ (ema' # ema \/ priceCount' # priceCount) =>
             /\ priceCount' = priceCount + 1
             /\ LET kept == FMul(FSub(FromInt(1), alpha), ema) IN
                \E msg \in TradeMessages :
                   /\ msg.kind # "garbage"
                   /\ ema' = IF ema = Null THEN ParsedPrice(msg)
                             ELSE FAdd(FMul(alpha, ParsedPrice(msg)), kept)]_vars

\* the feed was disconnected after MaxTicks ticks left a blended average
C28_Witness ==
    /\ priceCount = MaxTicks
    /\ ema # Null
    /\ ~IsNaN(ema)
    /\ ema \notin TickPrices
    /\ feedClosed

\* 2 / (windowMs / 1000 + 1)
WindowAlpha(windowMs) ==
    FDiv(FromInt(2), FAdd(FDiv(FromInt(windowMs), FromInt(1000)), FromInt(1)))

\* C29: the alpha of a constructed calculator is greater than 0 and at most
\* 1, and for every constructor configuration it is 2 / (windowMs/1000 + 1)
\* of the configured window (the default window when none is given).
C29_AlphaFromWindowInUnitInterval ==
    /\ FGt(alpha, FZero)
    /\ FLe(alpha, FromInt(1))
    /\ \A cfg \in ConstructorConfigs :
          ConstructAlpha(cfg) = WindowAlpha(OrElse(cfg.windowMs, DEFAULT_WINDOW_MS))

\* every level of the side has a size greater than zero
AllPositive(levels) == \A i \in 1 .. Len(levels) : FGt(levels[i][2], FZero)

\* an entry that brings the size of the level at index i to zero or below
\* leaves no level at that price and the other levels as they were
RemovesEmptied(levels, isBid) ==
    \A i \in 1 .. Len(levels) : \A l \in DeltaLots :
        FLe(FAdd(levels[i][2], Size(l)), FZero) =>
            LET after == ApplyPriceLevelDelta(levels, levels[i][1], Size(l), isBid)
            IN /\ IndexOfPrice(after, levels[i][1], 1) = 0
               /\ after = RemoveAt(levels, i)

\* C30: in every book loaded from a snapshot with positive sizes and changed
\* by any sequence of deltas, every level on both sides has a size greater
\* than zero, and a delta entry that brings an existing level's size to zero
\* or below removes that level from its side.
C30_NoEmptyLevels ==
    \A m \in Markets : BookOf(m).present =>
        /\ AllPositive(BookOf(m).bids)
        /\ AllPositive(BookOf(m).asks)
        /\ RemovesEmptied(BookOf(m).bids, TRUE)
        /\ RemovesEmptied(BookOf(m).asks, FALSE)

\* a delta took the last bid away, its size having reached exactly zero
C30_Witness ==
    /\ handled.op = "message"
    /\ handled.m = "m1"
    /\ ~handled.stale
    /\ ~handled.malformed
    /\ BookOf("m1").present
    /\ BookOf("m1").bids = <<>>
    /\ ideal["m1"].bids = NoLots

\* the prices the entries of one side of a delta name
NamedPrices(entries) == { entries[i][1] : i \in 1 .. Len(entries) }

\* the levels of a side at the prices outside P, in their order
RECURSIVE LevelsOutside(_, _)
LevelsOutside(levels, P) ==
    IF levels = <<>> THEN <<>>
    ELSE IF Head(levels)[1] \in P THEN LevelsOutside(Tail(levels), P)
    ELSE <<Head(levels)>> \o LevelsOutside(Tail(levels), P)

\* the side after the entries differs from the side before at named prices
\* only, and has no level at a price that had none and is named with
\* changes of zero or less only
SideFrame(levels, entries, isBid) ==
    LET after == ApplySide(levels, entries, isBid)
    IN /\ LevelsOutside(after, NamedPrices(entries))
             = LevelsOutside(levels, NamedPrices(entries))
       /\ \A p \in NamedPrices(entries) :
             (/\ IndexOfPrice(levels, p, 1) = 0
              /\ \A i \in 1 .. Len(entries) : entries[i][1] = p => entries[i][2] <= 0)
             => IndexOfPrice(after, p, 1) = 0

\* deltas the nonce check lets through unless the book is at MaxNonce
FrameDeltas == { d \in RichDeltas : d.shape = "ok" /\ d.nonce = MaxNonce }

\* C31: applying a delta to a reachable book changes only the levels the
\* delta names: on each side the levels at prices the side's entries do not
\* name keep their sizes and their order, a delta without ask entries leaves
\* the asks as they are and one without bid entries the bids, and an entry
\* with a change of zero or less for a price without a level inserts nothing.
C31_DeltaChangesNamedLevelsOnly ==
    \A m \in Markets : BookOf(m).present =>
        \A d \in FrameDeltas :
            LET after == BookAfterDelta(BookOf(m), d)
            IN /\ SkipsDelta(BookOf(m), d) => after = BookOf(m)
               /\ ~SkipsDelta(BookOf(m), d) =>
                     /\ after.bids = ApplySide(BookOf(m).bids, d.bids, TRUE)
                     /\ after.asks = ApplySide(BookOf(m).asks, d.asks, FALSE)
                     /\ SideFrame(BookOf(m).bids, d.bids, TRUE)
                     /\ SideFrame(BookOf(m).asks, d.asks, FALSE)
                     /\ (d.asks = <<>> => after.asks = BookOf(m).asks)
                     /\ (d.bids = <<>> => after.bids = BookOf(m).bids)

\* a delta added to the bid at price 3 and left the bid at price 1 and the
\* ask side as the snapshot had them
C31_Witness ==
    /\ handled.op = "message"
    /\ ~handled.stale
    /\ ~handled.malformed
    /\ BookOf("m1").present
    /\ BookOf("m1").bids = <<<<3, FAdd(Size(1), Size(2))>>, <<1, Size(3)>>>>
    /\ BookOf("m1").asks = <<<<2, Size(1)>>>>

\* C32: after any sequence of updatePosition calls the size of the position
\* is at least 0 and its notional is size * markPrice, and getSignedNotional()
\* is the notional for a long position, its negation for a short one and 0
\* when the side is none.
C32_PositionNotional ==
    /\ FGe(position.size, FZero)
    /\ position.notional = FMul(position.size, position.markPrice)
    /\ position.side = "long" => GetSignedNotional = position.notional
    /\ position.side = "short" => GetSignedNotional = FNeg(position.notional)
    /\ position.side = "none" => GetSignedNotional = FZero
    /\ position.side \in {"long", "short", "none"}

\* a short position reported with a negative size, marked at the price the
\* caller passed
C32_Witness ==
    /\ position.side = "short"
    /\ position.size = FromInt(40)
    /\ position.markPrice = FromInt(17)
    /\ position.notional = FromInt(680)
    /\ GetSignedNotional = FromInt(-680)

\* ------------------------------------------------------------------------
\* Properties of the order calls
\* ------------------------------------------------------------------------

\* positions in the history of the requests of call w in the given phase
RequestsOf(w, phase) ==
    { i \in 1 .. Len(requests) : requests[i].call = w /\ requests[i].phase = phase }

\* C33: every place or cancel call builds, signs and submits in that order:
\* a submit request was sent only by a call whose build request was sent
\* before and answered and whose digest was signed, it carries the
\* transactionBytes of that call's build response, no call sends a second
\* build or submit request, and a call whose account lookup, build or
\* signing failed has sent no submit request.
C33_BuildSignSubmit ==
    \A w \in WriteIds :
        /\ Cardinality(RequestsOf(w, "build")) <= 1
        /\ Cardinality(RequestsOf(w, "submit")) <= 1
        /\ \A i \in RequestsOf(w, "submit") :
              /\ \E j \in RequestsOf(w, "build") : j < i
              /\ writes[w].bytes \in TxBytes
              /\ writes[w].signed
              /\ requests[i].transactionBytes = writes[w].bytes
        /\ writes[w].failedAt \in {"account", "build", "sign"}
              => RequestsOf(w, "submit") = {}
        /\ writes[w].pc \in {"submit", "done"} /\ writes[w].kind = "place"
              => RequestsOf(w, "submit") # {}

\* two calls in flight got different bytes from their builds; the second
\* call submitted first, the first call's signer failed
C33_Witness ==
    /\ writes[1].kind = "place"
    /\ writes[2].kind = "cancel"
    /\ writes[1].failedAt = "sign"
    /\ writes[1].bytes = 1
    /\ writes[2].pc = "done"
    /\ writes[2].bytes = 2
    /\ Len(requests) = 3
    /\ requests[1].call = 2
    /\ requests[3] = [call |-> 2, phase |-> "submit", transactionBytes |-> 2]

\* ------------------------------------------------------------------------
\* Properties of the transports
\* ------------------------------------------------------------------------

\* sockets of the price feed that are open
OpenSockets == { s \in SocketIds : sockets[s].st = "open" }

\* event sources of market m that are open
OpenSources(m) == { i \in SourceIds : sources[m][i] = "open" }

\* C34: each stream holds at most one live transport: at most one socket of
\* the price feed is open, and at most one event source of each market.
C34_OneLiveTransport ==
    /\ Cardinality(OpenSockets) <= 1
    /\ \A m \in Markets : Cardinality(OpenSources(m)) <= 1

\* ------------------------------------------------------------------------
\* Further properties of the quoter
\* ------------------------------------------------------------------------

\* C35: for a configuration validateConfig accepts and a positive fair
\* price, every quote generateQuotes returns has
\* bidPrice < fairPrice < askPrice; stated for the quotes of close mode,
\* whose spread is takeProfitBps, a field validateConfig never reads.
C35_QuoteNeverCrossed ==
    (/\ quote # NoQuote /\ ValidConfig(config)
     /\ quote.isCloseMode /\ FGt(quote.fairPrice, FZero)) =>
        /\ FLt(quote.bidPrice, quote.fairPrice)
        /\ FLt(quote.fairPrice, quote.askPrice)

LowestTick == CHOOSE p \in TickPrices : \A q \in TickPrices : FLe(p, q)
HighestTick == CHOOSE p \in TickPrices : \A q \in TickPrices : FGe(p, q)

\* C37: once ticks with prices in a bounded positive range have arrived, the
\* EMA lies between the smallest and the largest tick price received, which
\* in turn lie in the range of the feed's prices.
C37_EmaWithinTicks ==
    (ema # Null /\ ~IsNaN(ema)) => FGe(ema, LowestTick) /\ FLe(ema, HighestTick)

\* the elements of seq that lie in S, in order
RECURSIVE Kept(_, _)
Kept(seq, S) ==
    IF seq = <<>> THEN <<>>
    ELSE (IF Head(seq) \in S THEN <<Head(seq)>> ELSE <<>>) \o Kept(Tail(seq), S)

InvokedCallbacks(calls) == [i \in 1..Len(calls) |-> calls[i].callback]

Registered(list) == { list[i] : i \in 1..Len(list) }

\* C38: on every tick each callback that is registered and is not removed
\* is invoked exactly once, in registration order, with the EMA after the
\* update and the timestamp of the tick, ready or not, and also when a
\* callback unregisters itself or another callback during the delivery.
C38_EachCallbackOncePerTick ==
    [][priceCount' # priceCount =>
        /\ Kept(InvokedCallbacks(delivery'), Registered(priceCallbacks')) = priceCallbacks'
        /\ \A i \in 1..Len(delivery') :
              /\ delivery'[i].price = ema'
              /\ delivery'[i].timestamp = lastUpdateTime']_vars

\* ------------------------------------------------------------------------
\* Properties of the markets cache
\* ------------------------------------------------------------------------

\* a getMarkets call begins in this step and is answered from the cache
AnsweredFromCache == fetches'[cacheOp'.call].pc = "cached"

\* C39, first part: getMarkets answers from the cache, without fetching,
\* exactly when forceRefresh is false, a list is stored and it is less than
\* CACHE_TTL_MS old; a fetch that succeeds stores the new list with the
\* time the call read; a fetch that fails leaves list and timestamp alone.
CacheServesAndStores ==
    /\ cacheOp'.op = "getMarkets" =>
          /\ AnsweredFromCache <=>
                (/\ ~cacheOp'.forceRefresh
                 /\ marketsCache # 0
                 /\ cacheNow - cacheTimestamp < CACHE_TTL_MS)
          /\ IF AnsweredFromCache
             THEN fetches'[cacheOp'.call].result = marketsCache
             ELSE fetches'[cacheOp'.call].pc = "fetching"
          /\ UNCHANGED <<marketsCache, cacheTimestamp>>
    /\ cacheOp'.op = "fetched" =>
          /\ marketsCache' = fetches'[cacheOp'.call].result
          /\ marketsCache' # 0
          /\ cacheTimestamp' = fetches[cacheOp'.call].now
    /\ cacheOp'.op = "failed" => UNCHANGED <<marketsCache, cacheTimestamp>>

\* C39, second part: the first getMarkets after clearMarketsCache fetches
FetchesAfterClear ==
    (cacheOp'.op = "getMarkets" /\ cleared) => ~AnsweredFromCache

\* C39: the markets cache serves, stores and keeps its list as described
\* above, and after clearMarketsCache the next getMarkets always fetches.
C39_MarketsCache == [][CacheServesAndStores /\ FetchesAfterClear]_vars

\* ------------------------------------------------------------------------
\* Further properties of the local order book
\* ------------------------------------------------------------------------

\* well-formed deltas of every nonce with entries on both sides
NoncedDeltas ==
    { d \in RichDeltas \cup FewDeltas :
         d.shape = "ok" /\ d.bids # <<>> /\ d.asks # <<>> }

\* what applyDelta does with a well-formed delta on a book that is present:
\* without lastNonce it applies the delta whatever its nonce and takes the
\* delta's nonce; with lastNonce it applies exactly the deltas above it
NonceRule(book) ==
    \A d \in NoncedDeltas :
        LET new == BookAfterDelta(book, d)
        IN IF book.nonce = NoNonce \/ d.nonce > book.nonce
           THEN /\ new.bids = ApplySide(book.bids, d.bids, TRUE)
                /\ new.asks = ApplySide(book.asks, d.asks, FALSE)
                /\ new.nonce = d.nonce /\ new.nonce # NoNonce
                /\ DeltaNotifies(book, d)
           ELSE new = book /\ ~DeltaNotifies(book, d)

\* a message handled on a market: without a local book nothing is created
\* and nobody is called; on a book it never takes lastNonce away or back
MessageStep ==
    handled'.op = "message" =>
        LET m == handled'.m
        IN IF ~BookOf(m).present
           THEN localOrderbooks' = localOrderbooks /\ called' = <<>>
           ELSE /\ localOrderbooks'[m].present
                /\ localOrderbooks'[m].nonce >= BookOf(m).nonce
                /\ (BookOf(m).nonce = NoNonce /\ ~handled'.malformed)
                      => (~handled'.stale /\ localOrderbooks'[m].nonce # NoNonce)

\* C40: on a snapshot without a nonce the first delta is applied whatever
\* its nonce, after which lastNonce is defined and every later delta passes
\* the nonce check; a delta for a market without a local book is ignored:
\* no book is created and no callback is called.
C40_FirstDeltaAndNoBook ==
    /\ [](\A m \in Markets : BookOf(m).present => NonceRule(BookOf(m)))
    /\ [][MessageStep]_vars

\* a delta has just arrived for a market whose book is gone (a reconnect
\* timer outlived the subscription): nothing was created, nobody called
C40_Witness ==
    /\ handled.op = "message" /\ handled.m = "m1"
    /\ ~BookOf("m1").present
    /\ called = <<>>

====
